---- MODULE Spec2Model ----
(***************************************************************************)
(* Verification model of the avalanche-forecasting repository:             *)
(*   - the rose decoder   (update_avalanche_forecast_dataset.py)           *)
(*   - the rose generator (create_rose/create_rose.py)                     *)
(*   - the region index   (main_notebook.py)                               *)
(*   - the station assignment and the time-series fetch (main_notebook.py) *)
(*   - the dataset update (update_avalanche_forecast_dataset.py, run)      *)
(* Each subsystem has its own specification; the variables of the other    *)
(* subsystems stay idle in it.                                             *)
(***************************************************************************)
EXTENDS Integers, Sequences, FiniteSets, TLC

VARIABLES
    \* AvalancheForecastScraper (decoder)
    danger_levels,   \* self.danger_levels: colour table in declaration order
    hsv_value,       \* argument of the last convert_to_danger_level call
    closest_level,   \* its return value
    self_coordinates,\* self.coordinates: decoder's map, point -> [x, y]
    rose_data,       \* outcome of the last read_the_rose call
    \* create_rose.py (generator)
    colors,          \* module global colors: layer -> danger name -> hex code
    coordinates,     \* module global coordinates: tier-layer -> direction -> seeds
    input,           \* argument of the create_rose call
    img,             \* the image at hand: the blank template, then create_rose's result
    rose_status,     \* how the create_rose call ended
    \* main_notebook.py (region index)
    POLYS,           \* _POLYS: the polygons, in REGION_BOUNDARIES order
    REGION_BY_ID,    \* _REGION_BY_ID: polygon -> region name
    TREE,            \* _TREE: the STRtree, one bounding box per polygon
    THRESH,          \* _THRESH: the near-boundary tolerance
    pt,              \* (lat, lon) of the last regions_for_point call
    regions,         \* its return value
    \* main_notebook.py (assign_regions)
    df,              \* argument of the assign_regions call: the station rows
    region_stations, \* first map returned: region -> stationId -> info
    station_to_regions, \* second map returned: stationId -> regions
    \* main_notebook.py (_build_region_index and repeated queries)
    given_boundaries,\* argument "boundaries" of the _build_region_index call
    build_status,    \* how the call ended, and the region its error names
    calls,           \* the regions_for_point calls so far: point and result
    \* main_notebook.py (build_dataset, fetch_snotel_timeseries)
    station_ids,     \* argument of fetch_snotel_timeseries: the ids dispatched
    futures,         \* one future per submitted task: state, exception, result
    yielded,         \* the futures as_completed has handed to the loop so far
    all_rows,        \* all_rows: the records collected so far
    ts_df,           \* what fetch_snotel_timeseries returned
    dataset,         \* how build_dataset ended, and the rows it returned
    \* update_avalanche_forecast_dataset.py (run)
    archive,         \* the forecasts the archive site lists, newest first
    output_csv,      \* the file avalanche-forecast-rose.csv
    temp_csv,        \* the file temp_avalanche-forecast-rose.csv
    output_before,   \* output_csv as the last run() found it
    new_data,        \* new_data_df of the last run(): the rows scraped
    rose_failed,     \* which of those rows had no rose link or image (0: none)
    results,         \* results of the last run(): the rows processed
    run_status,      \* how the last run() ended
    runs,            \* how many times run() was called
    \* concurrent callers of read_the_rose and regions_for_point
    threads,         \* per thread: the call it runs, its loop index and locals
    \* scrape_forecast_data, one request or table row per step
    script,          \* which copy runs: the class method or the older script
    listing,         \* the rows the archive site lists, newest first
    latest,          \* latest_date (NoDate: not given, or NaT)
    fails_at,        \* the page whose request or parse raises (-1: none)
    page,            \* page
    table_row,       \* position in table_rows[1:] of the page
    scrape_data,     \* data: the rows appended so far
    scrape_return,   \* what the call returned or raised
    \* main.py
    snotel_file,     \* snotel/snotel_data.csv as main() finds it
    avalanche_file,  \* avalanche-forecast-rose.csv as main() finds it
    snotel_exits,    \* exit codes of the SNOTEL processor, per invocation
    avalanche_exits, \* exit codes of the forecast processor, per invocation
    invoked,         \* the commands run_processor has run, in order
    snotel_success,  \* snotel_success
    avalanche_success, \* avalanche_success
    exit_status,     \* what main() returned or raised
    \* snotel_processor.py
    today,           \* the day of the clock
    boundaries_json, \* region_boundaries.json: the regions it holds
    snotel_csv,      \* snotel_data.csv: the station metadata
    ts_csv,          \* snotel_ts_data.csv: the time series
    stations_json,   \* snotel_stations_by_region.json: the roster
    api_requests,    \* the station data requests of the last call
    written,         \* the files the last call wrote
    snotel_result,   \* what the last call returned or raised
    start_date_obj,  \* start_date_obj of the last time-series call
    updates,         \* how many calls were made
    called,          \* the arguments of the last call and the files it found
    queried,         \* the point of the last determine_region call
    closest_region,  \* its return value
    pc               \* which operation ran last

classifyVars == <<danger_levels, hsv_value, closest_level>>
decoderVars == <<self_coordinates, rose_data>>
generatorVars == <<colors, coordinates, input, img, rose_status>>
indexVars == <<POLYS, REGION_BY_ID, TREE, THRESH>>
regionVars == <<POLYS, REGION_BY_ID, TREE, THRESH, pt, regions>>
assignVars == <<df, region_stations, station_to_regions>>
\* the variables of the subsystems other than the decoder, the generator and
\* the region index
buildVars == <<given_boundaries, build_status, calls>>
fetchVars == <<station_ids, futures, yielded, all_rows, ts_df, dataset>>
scraperVars == <<archive, output_csv, temp_csv, output_before, new_data,
                 rose_failed, results, run_status, runs>>
threadVars == <<threads>>
\* the variables of the subsystems modelled after the dataset update
loopVars == <<script, listing, latest, fails_at, page, table_row, scrape_data,
              scrape_return>>
mainVars == <<snotel_file, avalanche_file, snotel_exits, avalanche_exits,
              invoked, snotel_success, avalanche_success, exit_status>>
snotelVars == <<today, boundaries_json, snotel_csv, ts_csv, stations_json,
                api_requests, written, snotel_result, start_date_obj, updates,
                called, queried, closest_region>>
moreVars == <<loopVars, mainVars, snotelVars>>
otherVars == <<threadVars, moreVars>>
laterVars == <<assignVars, buildVars, fetchVars, scraperVars, otherVars>>
vars == <<danger_levels, hsv_value, closest_level, self_coordinates, rose_data,
          colors, coordinates, input, img, rose_status,
          POLYS, REGION_BY_ID, TREE, THRESH, pt, regions,
          df, region_stations, station_to_regions,
          given_boundaries, build_status, calls,
          station_ids, futures, yielded, all_rows, ts_df, dataset,
          archive, output_csv, temp_csv, output_before, new_data, rose_failed,
          results, run_status, runs, threads,
          script, listing, latest, fails_at, page, table_row, scrape_data,
          scrape_return,
          snotel_file, avalanche_file, snotel_exits, avalanche_exits,
          invoked, snotel_success, avalanche_success, exit_status,
          today, boundaries_json, snotel_csv, ts_csv, stations_json,
          api_requests, written, snotel_result, start_date_obj, updates,
          called, queried, closest_region, pc>>

NoValue == "-"

\* the region index before it is used
RegionIdle ==
    /\ POLYS = NoValue
    /\ REGION_BY_ID = NoValue
    /\ TREE = NoValue
    /\ THRESH = NoValue
    /\ pt = NoValue
    /\ regions = NoValue

\* the decoder and the generator before they are used
RoseIdle ==
    /\ danger_levels = NoValue
    /\ hsv_value = NoValue
    /\ closest_level = NoValue
    /\ self_coordinates = NoValue
    /\ rose_data = NoValue
    /\ colors = NoValue
    /\ coordinates = NoValue
    /\ input = NoValue
    /\ img = NoValue
    /\ rose_status = NoValue

\* assign_regions before it is called
AssignIdle ==
    /\ df = NoValue
    /\ region_stations = NoValue
    /\ station_to_regions = NoValue

\* _build_region_index before it is called with boundaries of the caller
BuildIdle ==
    /\ given_boundaries = NoValue
    /\ build_status = NoValue
    /\ calls = NoValue

\* build_dataset before it is called
FetchIdle ==
    /\ station_ids = NoValue
    /\ futures = NoValue
    /\ yielded = NoValue
    /\ all_rows = NoValue
    /\ ts_df = NoValue
    /\ dataset = NoValue

\* the dataset update before it is run
ScraperIdle ==
    /\ archive = NoValue
    /\ output_csv = NoValue
    /\ temp_csv = NoValue
    /\ output_before = NoValue
    /\ new_data = NoValue
    /\ rose_failed = NoValue
    /\ results = NoValue
    /\ run_status = NoValue
    /\ runs = NoValue

\* no concurrent callers
ThreadsIdle == threads = NoValue

\* scrape_forecast_data before it is called
LoopIdle ==
    /\ script = NoValue
    /\ listing = NoValue
    /\ latest = NoValue
    /\ fails_at = NoValue
    /\ page = NoValue
    /\ table_row = NoValue
    /\ scrape_data = NoValue
    /\ scrape_return = NoValue

\* main() before it is called
MainIdle ==
    /\ snotel_file = NoValue
    /\ avalanche_file = NoValue
    /\ snotel_exits = NoValue
    /\ avalanche_exits = NoValue
    /\ invoked = NoValue
    /\ snotel_success = NoValue
    /\ avalanche_success = NoValue
    /\ exit_status = NoValue

\* the SNOTEL processor before it is run
SnotelIdle ==
    /\ today = NoValue
    /\ boundaries_json = NoValue
    /\ snotel_csv = NoValue
    /\ ts_csv = NoValue
    /\ stations_json = NoValue
    /\ api_requests = NoValue
    /\ written = NoValue
    /\ snotel_result = NoValue
    /\ start_date_obj = NoValue
    /\ updates = NoValue
    /\ called = NoValue
    /\ queried = NoValue
    /\ closest_region = NoValue

MoreIdle == LoopIdle /\ MainIdle /\ SnotelIdle

OtherIdle == ThreadsIdle /\ MoreIdle

LaterIdle == AssignIdle /\ BuildIdle /\ FetchIdle /\ ScraperIdle /\ OtherIdle

\* the subsystems above before they are used
EarlierIdle ==
    /\ RoseIdle
    /\ RegionIdle
    /\ AssignIdle
    /\ BuildIdle
    /\ FetchIdle
    /\ ScraperIdle
    /\ ThreadsIdle

earlierVars == <<classifyVars, decoderVars, generatorVars, regionVars, assignVars,
                 buildVars, fetchVars, scraperVars, threadVars>>

\* everything but scrape_forecast_data's state
notLoopVars == <<earlierVars, mainVars, snotelVars>>
NotLoopIdle == EarlierIdle /\ MainIdle /\ SnotelIdle

\* everything but main()'s state
notMainVars == <<earlierVars, loopVars, snotelVars>>
NotMainIdle == EarlierIdle /\ LoopIdle /\ SnotelIdle

\* everything but the SNOTEL processor's state
notSnotelVars == <<earlierVars, loopVars, mainVars>>
NotSnotelIdle == EarlierIdle /\ LoopIdle /\ MainIdle

(***************************************************************************)
(* ColorClassifier: AvalancheForecastScraper.convert_to_danger_level       *)
(***************************************************************************)

\* Largest colour component of the samples that are classified.
MaxComp == 2
\* Number of rows of the colour tables that are enumerated.
NumLevels == 3

Component == 0..MaxComp
\* every 3-component sample
Colour == Component \X Component \X Component
\* the colours a table row may register: the corners of the colour cube
TableColour == {0, MaxComp} \X {0, MaxComp} \X {0, MaxComp}

Sq(x) == x * x

\* A distance that compares hue and saturation only.
Dist2HueSat(a, b) == Sq(a[1] - b[1]) + Sq(a[2] - b[2])

\* np.linalg.norm(np.array(hsv_value) - np.array(level_hsv)), squared. The
\* uint8 sample minus the int64 table row is an int64 array, so the
\* difference does not wrap; sqrt is strictly monotone on these integers, so
\* comparing squares is comparing norms.
Dist2(a, b) == Sq(a[1] - b[1]) + Sq(a[2] - b[2]) + Sq(a[3] - b[3])

\* min() that keeps the last of several minimal keys.
RECURSIVE MinIndexLast(_, _, _, _)
MinIndexLast(table, sample, i, best) ==
    IF i > Len(table) THEN best
    ELSE IF Dist2(sample, table[i].hsv) <= Dist2(sample, table[best].hsv)
         THEN MinIndexLast(table, sample, i + 1, i)
         ELSE MinIndexLast(table, sample, i + 1, best)

\* min(distances, key=distances.get): one pass over the dict in insertion
\* order; a later key replaces the running minimum only when strictly smaller.
RECURSIVE MinIndex(_, _, _, _)
MinIndex(table, sample, i, best) ==
    IF i > Len(table) THEN best
    ELSE IF Dist2(sample, table[i].hsv) < Dist2(sample, table[best].hsv)
         THEN MinIndex(table, sample, i + 1, i)
         ELSE MinIndex(table, sample, i + 1, best)

convert_to_danger_level(table, sample) ==
    table[MinIndex(table, sample, 2, 1)].level

\* The colour tables enumerated: NumLevels rows, keys 0..NumLevels-1 declared
\* in ascending or in descending order, every level with a colour of its own.
Injective(f) == \A i, j \in DOMAIN f : i # j => f[i] # f[j]

ClassifyTables ==
    { [i \in 1..NumLevels |->
          [level |-> IF asc THEN i - 1 ELSE NumLevels - i, hsv |-> f[i]]] :
        f \in {g \in [1..NumLevels -> TableColour] : Injective(g)},
        asc \in BOOLEAN }

InitClassify ==
    /\ danger_levels \in ClassifyTables
    /\ hsv_value = NoValue
    /\ closest_level = NoValue
    /\ self_coordinates = NoValue
    /\ rose_data = NoValue
    /\ colors = NoValue
    /\ coordinates = NoValue
    /\ input = NoValue
    /\ img = NoValue
    /\ rose_status = NoValue
    /\ RegionIdle
    /\ LaterIdle
    /\ pc = "init"

\* one call convert_to_danger_level(sample)
ConvertToDangerLevel(sample) ==
    /\ hsv_value' = sample
    /\ closest_level' = convert_to_danger_level(danger_levels, sample)
    /\ pc' = "classified"
    /\ UNCHANGED <<danger_levels, decoderVars, generatorVars, regionVars, laterVars>>

NextClassify == \E sample \in Colour : ConvertToDangerLevel(sample)

SpecClassify == InitClassify /\ [][NextClassify]_vars

\* C1: classifying the exact colour registered for a level L of the table
\* returns L.
C1_ExactColourRoundTrips ==
    pc = "classified" =>
        \A i \in 1..Len(danger_levels) :
            hsv_value = danger_levels[i].hsv
                => closest_level = danger_levels[i].level

\* a level that is not the first declared was classified from its own colour
C1_Witness ==
    /\ pc = "classified"
    /\ \E i \in 2..Len(danger_levels) :
          /\ hsv_value = danger_levels[i].hsv
          /\ closest_level = danger_levels[i].level

\* C2: the level returned is in the table, is at minimal Euclidean distance
\* from the sample, and is the first declared of the levels at that distance.
C2_NearestFirstDeclared ==
    pc = "classified" =>
        \E i \in 1..Len(danger_levels) :
            /\ closest_level = danger_levels[i].level
            /\ \A j \in 1..Len(danger_levels) :
                  Dist2(hsv_value, danger_levels[i].hsv)
                      <= Dist2(hsv_value, danger_levels[j].hsv)
            /\ \A j \in 1..(i - 1) :
                  Dist2(hsv_value, danger_levels[j].hsv)
                      > Dist2(hsv_value, danger_levels[i].hsv)

\* a sample that is no table colour, with two levels tied at the minimal
\* distance, the first declared of them (not the lowest level) returned
C2_Witness ==
    /\ pc = "classified"
    /\ \A i \in 1..Len(danger_levels) : hsv_value # danger_levels[i].hsv
    /\ \E i, j \in 1..Len(danger_levels) :
          /\ i < j
          /\ danger_levels[i].level > danger_levels[j].level
          /\ closest_level = danger_levels[i].level
          /\ Dist2(hsv_value, danger_levels[i].hsv)
                = Dist2(hsv_value, danger_levels[j].hsv)
          /\ \A k \in 1..Len(danger_levels) :
                Dist2(hsv_value, danger_levels[i].hsv)
                    <= Dist2(hsv_value, danger_levels[k].hsv)

(***************************************************************************)
(* Rose fixtures. blank-rose.png, rose_static/colors.json,                 *)
(* rose_static/coordinates.json and the decoder's coordinates.json and     *)
(* colors.json are data files of the repository; they are laid out here as *)
(* the specification's data model describes them.                          *)
(***************************************************************************)

Tiers == {"bottom", "middle", "top"}
\* two of the eight compass octants
Directions == {"N", "NE"}
Cells == Tiers \X Directions
\* create_rose's layer list, in its order
Layers == <<"colors", "light-shadow", "dark-shadow">>

\* the template is ImageWidth x ImageHeight pixels, origin top-left
ImageWidth == 9
ImageHeight == 5
Pixels == (0..(ImageWidth - 1)) \X (0..(ImageHeight - 1))

\* a hex code "#RRGGBB" is kept as its six hex digits
White == <<255, 255, 255, 255>>
Black == <<0, 0, 0, 255>>

\* Every tier is one pixel row, rows separated by outline rows. In a row:
\* x = 0,1 the N wedge | 2 outline | 3 a light-shadow facet | 4 outline |
\* x = 5,6 the NE wedge | 7 outline | 8 a dark-shadow facet.
TierRow(tier) == CASE tier = "bottom" -> 0 [] tier = "middle" -> 2 [] tier = "top" -> 4
DirCol(direction) == CASE direction = "N" -> 0 [] direction = "NE" -> 5

BlankRose ==
    [p \in Pixels |->
        IF p[2] % 2 = 1 \/ p[1] \in {2, 4, 7} THEN Black ELSE White]

\* rose_static/colors.json
FillColors ==
    [d \in {"none", "low", "moderate", "considerable", "high", "extreme"} |->
        CASE d = "none" -> <<12, 12, 12, 12, 12, 12>>           \* #CCCCCC
          [] d = "low" -> <<5, 0, 11, 8, 4, 8>>                 \* #50B848
          [] d = "moderate" -> <<15, 15, 15, 2, 0, 0>>          \* #FFF200
          [] d = "considerable" -> <<15, 7, 9, 4, 1, 14>>       \* #F7941E
          [] d = "high" -> <<14, 13, 1, 12, 2, 4>>              \* #ED1C24
          [] d = "extreme" -> <<2, 3, 1, 15, 2, 0>>]            \* #231F20

LightShadowColors ==
    [d \in {"low", "high"} |->
        CASE d = "low" -> <<8, 0, 13, 0, 7, 8>>                 \* #80D078
          [] d = "high" -> <<15, 4, 6, 0, 6, 8>>]               \* #F46068

DarkShadowColors ==
    [d \in {"low"} |-> <<3, 0, 7, 8, 2, 8>>]                    \* #307828

RoseColors ==
    [layer \in {"colors", "light-shadow", "dark-shadow"} |->
        CASE layer = "colors" -> FillColors
          [] layer = "light-shadow" -> LightShadowColors
          [] layer = "dark-shadow" -> DarkShadowColors]

\* rose_static/coordinates.json, fill layer: one seed at the left pixel of
\* the wedge; the top-N wedge lists both of its pixels.
FillSeeds(tier, direction) ==
    IF tier = "top" /\ direction = "N"
    THEN << <<0, 4>>, <<1, 4>> >>
    ELSE << <<DirCol(direction), TierRow(tier)>> >>

\* the fill layer only
FillCoordinates ==
    [k \in {<<t, "colors">> : t \in Tiers} |->
        [d \in Directions |-> FillSeeds(k[1], d)]]

\* the fill layer, and shadow artwork for the bottom tier: N and NE share one
\* light-shadow facet, N has a dark-shadow facet
ShadowCoordinates ==
    [k \in {<<t, "colors">> : t \in Tiers}
            \cup {<<"bottom", "light-shadow">>, <<"bottom", "dark-shadow">>} |->
        CASE k[2] = "colors" -> [d \in Directions |-> FillSeeds(k[1], d)]
          [] k[2] = "light-shadow" -> [d \in Directions |-> << <<3, 0>> >>]
          [] k[2] = "dark-shadow" -> [d \in {"N"} |-> << <<8, 0>> >>]]

\* decoder's coordinates.json: the right pixel of each wedge, as [x, y]
SamplePoint(cell) == <<DirCol(cell[2]) + 1, TierRow(cell[1])>>

\* the decoder's map covers every cell, or every cell but one
DecoderMaps ==
    { [c \in dom |-> SamplePoint(c)] :
        dom \in {Cells} \cup {Cells \ {c} : c \in Cells} }

(***************************************************************************)
(* RoseGenerator: create_rose.py                                           *)
(***************************************************************************)

\* hex_to_rgb: int(hex_code[i:i+2], 16) for i in (0, 2, 4), then alpha 255
hex_to_rgb(hex_code) ==
    <<16 * hex_code[1] + hex_code[2], 16 * hex_code[3] + hex_code[4],
      16 * hex_code[5] + hex_code[6], 255>>

OnImage(x, y) == x >= 0 /\ x < ImageWidth /\ y >= 0 /\ y < ImageHeight

Neighbours(p) ==
    {q \in {<<p[1] + 1, p[2]>>, <<p[1] - 1, p[2]>>,
            <<p[1], p[2] + 1>>, <<p[1], p[2] - 1>>} : OnImage(q[1], q[2])}

\* the pixels floodfill reaches: 4-connected, of the seed's colour
RECURSIVE Flood(_, _, _)
Flood(image, background, edge) ==
    LET more == {q \in UNION {Neighbours(p) : p \in edge} :
                    q \notin edge /\ image[q] = background}
    IN IF more = {} THEN edge ELSE Flood(image, background, edge \cup more)

\* A fill that colours the seed pixel and does not spread.
floodfill_seed_only(image, xy, value) ==
    IF ~OnImage(xy[1], xy[2]) THEN image
    ELSE [p \in Pixels |-> IF p = xy THEN value ELSE image[p]]

\* ImageDraw.floodfill(image, xy, value), border None, thresh 0: a seed off
\* the image, or one that already has the fill colour, changes nothing
floodfill(image, xy, value) ==
    IF ~OnImage(xy[1], xy[2]) THEN image
    ELSE IF image[xy] = value THEN image
    ELSE LET region == Flood(image, image[xy], {xy})
         IN [p \in Pixels |-> IF p \in region THEN value ELSE image[p]]

fill_region(image, coord, fill_color_hex) ==
    floodfill(image, coord, hex_to_rgb(fill_color_hex))

None == "None"

\* num_to_danger: an if/elif chain without else, so any other number falls
\* off the end and the function returns None
num_to_danger(num) ==
    CASE num = 0 -> "none"
      [] num = 1 -> "low"
      [] num = 2 -> "moderate"
      [] num = 3 -> "considerable"
      [] num = 4 -> "high"
      [] num = 5 -> "extreme"
      [] OTHER -> None

\* int(danger) of the numeric strings
IntOf ==
    [s \in {"0", "1", "2", "3", "4", "5", "6", "7", "8", "9"} |->
        CASE s = "0" -> 0 [] s = "1" -> 1 [] s = "2" -> 2 [] s = "3" -> 3
          [] s = "4" -> 4 [] s = "5" -> 5 [] s = "6" -> 6 [] s = "7" -> 7
          [] s = "8" -> 8 [] s = "9" -> 9]

\* str.isnumeric()
isnumeric(danger) == danger \in DOMAIN IntOf

\* what a try block leaves behind: the image so far, the (re)bound danger and
\* the exception that ended it, if any
Step(image, danger, exc) == [img |-> image, danger |-> danger, exc |-> exc]

\* for coord in coordinates[...][direction]: normalise a numeric danger, look
\* the colour up, fill. danger stays rebound to num_to_danger's result, so a
\* danger that became None makes the next danger.isnumeric() an AttributeError.
RECURSIVE FillCoords(_, _, _, _, _)
FillCoords(image, danger, color, seeds, i) ==
    IF i > Len(seeds) THEN Step(image, danger, "none")
    ELSE IF danger = None THEN Step(image, danger, "AttributeError")
    ELSE LET d == IF isnumeric(danger) THEN num_to_danger(IntOf[danger])
                  ELSE danger
         IN IF color \notin DOMAIN colors \/ d \notin DOMAIN colors[color]
            THEN Step(image, d, "KeyError")
            ELSE FillCoords(fill_region(image, seeds[i], colors[color][d]),
                            d, color, seeds, i + 1)

\* a layer whose missing coordinate entry raises an exception that the
\* handler does not catch
FillLayerUncaughtMiss(image, danger, level, direction, color) ==
    IF <<level, color>> \notin DOMAIN coordinates
    THEN Step(image, danger, "AttributeError")
    ELSE IF direction \notin DOMAIN coordinates[<<level, color>>]
    THEN Step(image, danger, "AttributeError")
    ELSE FillCoords(image, danger, color,
                    coordinates[<<level, color>>][direction], 1)

\* the body of the try: coordinates["-".join([level, color])][direction]
FillLayer(image, danger, level, direction, color) ==
    IF <<level, color>> \notin DOMAIN coordinates
    THEN Step(image, danger, "KeyError")
    ELSE IF direction \notin DOMAIN coordinates[<<level, color>>]
    THEN Step(image, danger, "KeyError")
    ELSE FillCoords(image, danger, color,
                    coordinates[<<level, color>>][direction], 1)

\* for color in ['colors', 'light-shadow', 'dark-shadow']: try ... except
\* KeyError: pass. Any other exception leaves create_rose.
RECURSIVE FillLayers(_, _, _, _, _)
FillLayers(image, danger, level, direction, k) ==
    IF k > Len(Layers) THEN Step(image, danger, "none")
    ELSE LET r == FillLayer(image, danger, level, direction, Layers[k])
         IN IF r.exc = "AttributeError" THEN r
            ELSE FillLayers(r.img, r.danger, level, direction, k + 1)

\* for level, directions in input.items(): for direction, danger in
\* directions.items(): the cells in the input's own insertion order
IterationOrder(inp) == inp

RECURSIVE FillCells(_, _, _)
FillCells(image, inp, n) ==
    IF n > Len(inp) THEN [status |-> "ok", img |-> image]
    ELSE LET r == FillLayers(image, inp[n].danger, inp[n].level,
                             inp[n].direction, 1)
         IN IF r.exc = "AttributeError"
            THEN [status |-> "AttributeError", img |-> image]
            ELSE FillCells(r.img, inp, n + 1)

\* create_rose(image_path, input), image_path the blank template
create_rose(template, inp) == FillCells(template, IterationOrder(inp), 1)

(***************************************************************************)
(* RoseDecoder: AvalancheForecastScraper.read_the_rose                     *)
(***************************************************************************)

Max3(a, b, c) == IF a >= b /\ a >= c THEN a ELSE IF b >= c THEN b ELSE c
Min3(a, b, c) == IF a <= b /\ a <= c THEN a ELSE IF b <= c THEN b ELSE c

\* image.convert("HSV") on one pixel (Pillow's rgb2hsv; alpha is dropped):
\* v = max, s = 255 * (max - min) / max, h = 255 * frac(h6 / 6) with h6 the
\* colorsys hue sextant; every component truncated to 8 bits
Rgb2Hsv(px) ==
    LET r == px[1]
        g == px[2]
        b == px[3]
        maxc == Max3(r, g, b)
        minc == Min3(r, g, b)
        cr == maxc - minc
        hn == IF r = maxc THEN g - b
              ELSE IF g = maxc THEN (2 * cr) + b - r
              ELSE (4 * cr) + r - g
    IN IF minc = maxc THEN <<0, 0, maxc>>
       ELSE <<(255 * (hn % (6 * cr))) \div (6 * cr), (255 * cr) \div maxc, maxc>>

\* numpy index (row, column) taken first component first
IndexRowColumn(coord) == <<coord[1], coord[2]>>

\* hsv_array[coord[1], coord[0]]: the index is (row, column) = (coord[1],
\* coord[0]), so a map entry is [x, y] = [column, row]
ArrayIndex(coord) == <<coord[2], coord[1]>>

\* np.array(hsv_image)[row, column]; the array has ImageHeight rows
InArray(idx) ==
    idx[1] >= 0 /\ idx[1] < ImageHeight /\ idx[2] >= 0 /\ idx[2] < ImageWidth

HsvArrayAt(image, idx) == Rgb2Hsv(image[<<idx[2], idx[1]>>])

\* A decoder that reports every cell of the grid, a cell missing from the map
\* as level 0.
read_the_rose_every_cell(image) ==
    [status |-> "ok",
     danger_levels |->
         [point \in Cells |->
             IF point \in DOMAIN self_coordinates
             THEN convert_to_danger_level(danger_levels,
                      HsvArrayAt(image, ArrayIndex(self_coordinates[point])))
             ELSE 0]]

\* A decoder that keeps only the cells whose pixel is exactly a table colour.
read_the_rose_exact_only(image) ==
    LET hit == {point \in DOMAIN self_coordinates :
                   \E i \in 1..Len(danger_levels) :
                       danger_levels[i].hsv =
                           HsvArrayAt(image, ArrayIndex(self_coordinates[point]))}
    IN [status |-> "ok",
        danger_levels |->
            [point \in hit |->
                convert_to_danger_level(danger_levels,
                    HsvArrayAt(image, ArrayIndex(self_coordinates[point])))]]

\* read_the_rose(image): every entry of self.coordinates is sampled and
\* classified; an index off the array raises IndexError
read_the_rose(image) ==
    IF \E point \in DOMAIN self_coordinates :
          ~InArray(ArrayIndex(self_coordinates[point]))
    THEN [status |-> "IndexError", danger_levels |-> <<>>]
    ELSE [status |-> "ok",
          danger_levels |->
              [point \in DOMAIN self_coordinates |->
                  convert_to_danger_level(danger_levels,
                      HsvArrayAt(image, ArrayIndex(self_coordinates[point])))]]

\* decoder's colors.json: the HSV value of each level's fill colour, keys 0..5
RoseDangerLevels ==
    [i \in 1..6 |->
        [level |-> i - 1,
         hsv |-> Rgb2Hsv(hex_to_rgb(FillColors[num_to_danger(i - 1)]))]]

(***************************************************************************)
(* The rose pipeline: generate one rose from the template, decode images   *)
(***************************************************************************)

\* Largest number of cells an input of create_rose gives a danger to.
MaxCells == 2

\* the danger values given to cells: a name, a valid and an invalid number
DangerInputs == {"low", "4", "6"}

\* A nested dict {tier: {direction: danger}} is kept as the sequence of its
\* cells in iteration order: keys are unique and the cells of one tier are
\* adjacent.
IsNestedDict(inp) ==
    /\ \A i, j \in 1..Len(inp) :
          i # j => <<inp[i].level, inp[i].direction>>
                       # <<inp[j].level, inp[j].direction>>
    /\ \A i, j, k \in 1..Len(inp) :
          (i < j /\ j < k /\ inp[i].level = inp[k].level)
              => inp[j].level = inp[i].level

InputEntries ==
    [level : Tiers, direction : Directions, danger : DangerInputs]

Inputs ==
    {inp \in UNION {[1..n -> InputEntries] : n \in 0..MaxCells} :
        IsNestedDict(inp)}

InitRose ==
    /\ danger_levels = RoseDangerLevels
    /\ hsv_value = NoValue
    /\ closest_level = NoValue
    /\ self_coordinates \in DecoderMaps
    /\ rose_data = NoValue
    /\ colors = RoseColors
    /\ coordinates \in {FillCoordinates, ShadowCoordinates}
    /\ input = NoValue
    /\ img = BlankRose
    /\ rose_status = NoValue
    /\ RegionIdle
    /\ LaterIdle
    /\ pc = "init"

\* create_rose(blank template, inp): the image returned, or the exception
\* (no image is returned then, the image at hand stays the template)
CreateRose(inp) ==
    /\ pc = "init"
    /\ LET r == create_rose(BlankRose, inp)
       IN /\ img' = IF r.status = "ok" THEN r.img ELSE img
          /\ rose_status' = r.status
    /\ input' = inp
    /\ pc' = "generated"
    /\ UNCHANGED <<classifyVars, decoderVars, colors, coordinates, regionVars, laterVars>>

\* read_the_rose on the image at hand
ReadTheRose ==
    /\ pc \in {"init", "generated"}
    /\ rose_status # "AttributeError"
    /\ rose_data' = read_the_rose(img)
    /\ pc' = "decoded"
    /\ UNCHANGED <<classifyVars, self_coordinates, generatorVars, regionVars, laterVars>>

NextRose ==
    \/ \E inp \in Inputs : CreateRose(inp)
    \/ ReadTheRose

SpecRose == InitRose /\ [][NextRose]_vars

\* the level a danger value of the grid stands for: the number itself, or the
\* number num_to_danger names
ValidDanger(d) ==
    IF isnumeric(d) THEN IntOf[d] \in 0..5 ELSE d \in DOMAIN FillColors

LevelOf(d) ==
    IF isnumeric(d) THEN IntOf[d]
    ELSE CHOOSE n \in 0..5 : num_to_danger(n) = d

\* level is the first declared of the table levels nearest to hsv
IsNearest(level, hsv) ==
    \E i \in 1..Len(danger_levels) :
        /\ level = danger_levels[i].level
        /\ \A j \in 1..Len(danger_levels) :
              Dist2(hsv, danger_levels[i].hsv) <= Dist2(hsv, danger_levels[j].hsv)
        /\ \A j \in 1..(i - 1) :
              Dist2(hsv, danger_levels[j].hsv) > Dist2(hsv, danger_levels[i].hsv)

FillLayerOnly == \A k \in DOMAIN coordinates : k[2] = "colors"

FillColoursDistinct ==
    \A d, e \in DOMAIN colors["colors"] :
        d # e => colors["colors"][d] # colors["colors"][e]

InputCell(n) == <<input[n].level, input[n].direction>>

\* C3: generate -> decode round trip. The generator used the fill layer
\* only, with pairwise distinct fill colours: decoding its image returns, for
\* every cell of the grid that is in the coordinate maps, the level the grid
\* gave to the cell.
C3_RoundTrip ==
    (pc = "decoded" /\ rose_status = "ok" /\ FillLayerOnly /\ FillColoursDistinct)
        => /\ rose_data.status = "ok"
           /\ \A n \in 1..Len(input) :
                 (/\ ValidDanger(input[n].danger)
                  /\ InputCell(n) \in DOMAIN self_coordinates
                  /\ <<input[n].level, "colors">> \in DOMAIN coordinates)
                     => rose_data.danger_levels[InputCell(n)]
                            = LevelOf(input[n].danger)

\* a grid with a named and a numeric level, both decoded back, in two tiers
C3_Witness ==
    /\ pc = "decoded" /\ rose_status = "ok" /\ FillLayerOnly
    /\ FillColoursDistinct
    /\ Len(input) = 2
    /\ input[1].danger = "low" /\ input[2].danger = "4"
    /\ input[1].level = "top" /\ input[2].level = "bottom"
    /\ \A n \in 1..2 : InputCell(n) \in DOMAIN self_coordinates
    /\ rose_data.danger_levels[InputCell(1)] = 1
    /\ rose_data.danger_levels[InputCell(2)] = 4

\* C4: the mapping read_the_rose returns has one entry for each cell of the
\* coordinate map and none for a cell missing from it.
C4_MissingCellOmitted ==
    (pc = "decoded" /\ rose_data.status = "ok")
        => /\ DOMAIN rose_data.danger_levels = DOMAIN self_coordinates
           /\ \A cell \in Cells \ DOMAIN self_coordinates :
                 cell \notin DOMAIN rose_data.danger_levels

\* the map lacks a cell the generator filled; the other cells are reported
C4_Witness ==
    /\ pc = "decoded" /\ rose_data.status = "ok" /\ rose_status = "ok"
    /\ \E n \in 1..Len(input) :
          /\ ValidDanger(input[n].danger)
          /\ InputCell(n) \notin DOMAIN self_coordinates
          /\ InputCell(n) \notin DOMAIN rose_data.danger_levels
    /\ DOMAIN rose_data.danger_levels = DOMAIN self_coordinates
    /\ DOMAIN rose_data.danger_levels # {}

\* the image of the scenario: the bottom-N sample pixel has the colour of
\* High, every other sampled pixel the background colour, which is no table
\* colour
BottomN == <<"bottom", "N">>
HighLevel == 4
IndexOfLevel(level) ==
    (CHOOSE i \in 1..Len(danger_levels) : danger_levels[i].level = level)
OnlyBottomNHigh ==
    /\ pc = "decoded"
    /\ BottomN \in DOMAIN self_coordinates
    /\ Rgb2Hsv(img[self_coordinates[BottomN]])
          = danger_levels[IndexOfLevel(HighLevel)].hsv
    /\ \A cell \in DOMAIN self_coordinates \ {BottomN} :
          img[self_coordinates[cell]] = White
    /\ \A i \in 1..Len(danger_levels) : danger_levels[i].hsv # Rgb2Hsv(White)

\* C5 as claimed: the mapping decoded from that image has the one key
\* (bottom, N) -> High and no other key.
C5_OnlyOneKey ==
    OnlyBottomNHigh
        => /\ rose_data.status = "ok"
           /\ DOMAIN rose_data.danger_levels = {BottomN}
           /\ rose_data.danger_levels[BottomN] = HighLevel

\* C5, amended: the mapping decoded from that image has a key for every cell
\* of the coordinate map: (bottom, N) -> High, and every other cell -> the
\* table level nearest to the background colour.
C5_EveryCellNearest ==
    OnlyBottomNHigh
        => /\ rose_data.status = "ok"
           /\ DOMAIN rose_data.danger_levels = DOMAIN self_coordinates
           /\ rose_data.danger_levels[BottomN] = HighLevel
           /\ \A cell \in DOMAIN self_coordinates \ {BottomN} :
                 IsNearest(rose_data.danger_levels[cell], Rgb2Hsv(White))

\* the scenario, decoded with all six cells in the map
C5_Witness ==
    /\ OnlyBottomNHigh
    /\ DOMAIN self_coordinates = Cells
    /\ Cardinality(DOMAIN rose_data.danger_levels) = 6
    /\ rose_data.danger_levels[BottomN] = HighLevel
    /\ rose_data.danger_levels[<<"top", "NE">>] = 0

\* the level decoded for point is the one nearest to the pixel in the given
\* column and row of the image
DecodesPixel(point, column, row) ==
    /\ OnImage(column, row)
    /\ IsNearest(rose_data.danger_levels[point], Rgb2Hsv(img[<<column, row>>]))

\* C6 as claimed: a map entry (a, b) is read as (row, column): the pixel in
\* row a, column b is sampled (an IndexError when that is off the image).
C6_RowThenColumn ==
    pc = "decoded" =>
        IF \A point \in DOMAIN self_coordinates :
              OnImage(self_coordinates[point][2], self_coordinates[point][1])
        THEN /\ rose_data.status = "ok"
             /\ \A point \in DOMAIN self_coordinates :
                   DecodesPixel(point, self_coordinates[point][2],
                                self_coordinates[point][1])
        ELSE rose_data.status = "IndexError"

\* C6, amended: a map entry (a, b) is read as (column, row) = (x, y): the
\* pixel in row b, column a is sampled (an IndexError when that is off the
\* image).
C6_ColumnThenRow ==
    pc = "decoded" =>
        IF \A point \in DOMAIN self_coordinates :
              OnImage(self_coordinates[point][1], self_coordinates[point][2])
        THEN /\ rose_data.status = "ok"
             /\ \A point \in DOMAIN self_coordinates :
                   DecodesPixel(point, self_coordinates[point][1],
                                self_coordinates[point][2])
        ELSE rose_data.status = "IndexError"

\* a filled wedge whose entry (6, 0) lies off the image when read as (row,
\* column), decoded from column 6 of row 0
C6_Witness ==
    /\ pc = "decoded" /\ rose_data.status = "ok" /\ rose_status = "ok"
    /\ <<"bottom", "NE">> \in DOMAIN self_coordinates
    /\ self_coordinates[<<"bottom", "NE">>] = <<6, 0>>
    /\ ~OnImage(0, 6)
    /\ img[<<6, 0>>] # White
    /\ rose_data.danger_levels[<<"bottom", "NE">>] = 1

NumToDangerBijective ==
    /\ \A n \in 0..5 : num_to_danger(n) \in DOMAIN FillColors
    /\ \A n, m \in 0..5 : n # m => num_to_danger(n) # num_to_danger(m)
    /\ \A d \in DOMAIN FillColors : \E n \in 0..5 : num_to_danger(n) = d

\* C7 as claimed: num_to_danger maps 0..5 one-to-one onto the six levels,
\* and create_rose given any other number as a cell's danger ends with an
\* error.
C7_OtherNumberRejected ==
    /\ NumToDangerBijective
    /\ pc = "generated"
          => \A n \in 1..Len(input) :
                (isnumeric(input[n].danger) /\ IntOf[input[n].danger] \notin 0..5)
                    => rose_status # "ok"

\* the orders in which a dict with the cells of inp can be written
ReorderedInputs(inp) ==
    {r \in {[i \in 1..Len(inp) |-> inp[f[i]]] :
                f \in {g \in [1..Len(inp) -> 1..Len(inp)] : Injective(g)}} :
        IsNestedDict(r)}

\* C8 as claimed: the fills are applied in a fixed order, so an input with
\* the same cell values in another key order produces the same image.
C8_OrderIndependent ==
    pc = "generated"
        => \A other \in ReorderedInputs(input) :
              LET r == create_rose(BlankRose, other)
              IN /\ r.status = rose_status
                 /\ r.status = "ok" => r.img = img

(***************************************************************************)
(* RegionIndex: main_notebook.py. Latitudes and longitudes are kept in     *)
(* tenths of a degree (every shipped vertex has one decimal), so the       *)
(* geometry below is exact integer arithmetic.                             *)
(***************************************************************************)

\* REGION_BOUNDARIES, vertices [lat, lon], in the dict's order
REGION_BOUNDARIES ==
    << [region |-> "Logan",
        ll |-> << <<412, -1119>>, <<420, -1119>>, <<420, -1111>>, <<412, -1111>> >>],
       [region |-> "Ogden",
        ll |-> << <<408, -1120>>, <<412, -1120>>, <<412, -1111>>, <<408, -1111>> >>],
       [region |-> "Salt Lake",
        ll |-> << <<404, -1120>>, <<408, -1120>>, <<408, -1111>>, <<404, -1111>> >>],
       [region |-> "Uintas",
        ll |-> << <<403, -1111>>, <<410, -1111>>, <<410, -1094>>, <<403, -1094>> >>],
       [region |-> "Provo",
        ll |-> << <<398, -1120>>, <<404, -1120>>, <<404, -1111>>, <<398, -1111>> >>],
       [region |-> "Skyline",
        ll |-> << <<389, -1118>>, <<398, -1118>>, <<398, -1111>>, <<389, -1111>> >>],
       [region |-> "Moab",
        ll |-> << <<380, -1098>>, <<390, -1098>>, <<390, -1089>>, <<380, -1089>> >>],
       [region |-> "Abajos",
        ll |-> << <<375, -1099>>, <<379, -1099>>, <<379, -1091>>, <<375, -1091>> >>],
       [region |-> "Southwest",
        ll |-> << <<370, -1140>>, <<385, -1140>>, <<385, -1125>>, <<370, -1125>> >>] >>

\* min_threshold = 0.4, in tenths of a degree
MinThreshold == 4

SetMin(S) == CHOOSE x \in S : \A y \in S : x <= y
SetMax(S) == CHOOSE x \in S : \A y \in S : x >= y

\* the i-th edge of a ring (Polygon closes the ring: the last vertex joins
\* the first)
EdgeFrom(poly, i) == poly[i]
EdgeTo(poly, i) == poly[(i % Len(poly)) + 1]

\* the envelope the STRtree keeps for a polygon: <<minx, miny, maxx, maxy>>
Envelope(poly) ==
    <<SetMin({poly[i][1] : i \in 1..Len(poly)}),
      SetMin({poly[i][2] : i \in 1..Len(poly)}),
      SetMax({poly[i][1] : i \in 1..Len(poly)}),
      SetMax({poly[i][2] : i \in 1..Len(poly)})>>

\* polygons built from the [lat, lon] pairs as they stand
BuildPolysUnswapped(boundaries) ==
    [i \in 1..Len(boundaries) |-> boundaries[i].ll]

\* _build_region_index(boundaries): coords = [(lon, lat) for lat, lon in ll]
BuildPolys(boundaries) ==
    [i \in 1..Len(boundaries) |->
        [k \in 1..Len(boundaries[i].ll) |->
            <<boundaries[i].ll[k][2], boundaries[i].ll[k][1]>>]]

BuildRegionById(boundaries) ==
    [i \in 1..Len(boundaries) |-> boundaries[i].region]

BuildTree(polys) == [i \in 1..Len(polys) |-> Envelope(polys[i])]

\* squared distance from p to the segment a-b, as a fraction <<num, den>>
SegDist2(p, a, b) ==
    LET dx == b[1] - a[1]
        dy == b[2] - a[2]
        wx == p[1] - a[1]
        wy == p[2] - a[2]
        t == (wx * dx) + (wy * dy)
        len2 == (dx * dx) + (dy * dy)
        cross == (wx * dy) - (wy * dx)
    IN IF t <= 0 THEN <<(wx * wx) + (wy * wy), 1>>
       ELSE IF t >= len2
            THEN <<Sq(p[1] - b[1]) + Sq(p[2] - b[2]), 1>>
            ELSE <<cross * cross, len2>>

\* pt.distance(poly.exterior) <= limit
ExteriorWithin(p, poly, limit) ==
    \E i \in 1..Len(poly) :
        LET d == SegDist2(p, EdgeFrom(poly, i), EdgeTo(poly, i))
        IN d[1] <= limit * limit * d[2]

\* the edges a ray from p towards +x crosses
Crossings(p, poly) ==
    {i \in 1..Len(poly) :
        LET a == EdgeFrom(poly, i)
            b == EdgeTo(poly, i)
        IN /\ (a[2] > p[2]) # (b[2] > p[2])
           /\ IF b[2] > a[2]
              THEN (p[1] - a[1]) * (b[2] - a[2]) < (p[2] - a[2]) * (b[1] - a[1])
              ELSE (p[1] - a[1]) * (b[2] - a[2]) > (p[2] - a[2]) * (b[1] - a[1])}

\* a containment test that counts the boundary as inside
ContainsOrTouches(poly, p) ==
    ExteriorWithin(p, poly, 0) \/ Cardinality(Crossings(p, poly)) % 2 = 1

\* prepared.contains(pt): p is in the interior; a point of the boundary is
\* not contained
Contains(poly, p) ==
    ~ExteriorWithin(p, poly, 0) /\ Cardinality(Crossings(p, poly)) % 2 = 1

\* _TREE.query(pt): the polygons whose envelope intersects the point's,
\* listed in index order
RECURSIVE QueryFrom(_, _, _)
QueryFrom(tree, p, i) ==
    IF i > Len(tree) THEN <<>>
    ELSE IF /\ tree[i][1] <= p[1] /\ p[1] <= tree[i][3]
            /\ tree[i][2] <= p[2] /\ p[2] <= tree[i][4]
         THEN <<i>> \o QueryFrom(tree, p, i + 1)
         ELSE QueryFrom(tree, p, i + 1)

Query(tree, p) == QueryFrom(tree, p, 1)

\* a near-boundary test that is never true
NeverNear(p, poly, limit) == FALSE

\* elif pt.distance(poly.exterior) <= _THRESH
NearBoundary(p, poly, limit) == ExteriorWithin(p, poly, limit)

\* regions_for_point(lat, lon): pt = Point(lon, lat); every candidate that
\* contains pt or whose exterior is within _THRESH of it, in candidate order
RECURSIVE RegionsOf(_, _, _)
RegionsOf(p, candidates, k) ==
    IF k > Len(candidates) THEN <<>>
    ELSE LET pid == candidates[k]
             reg == REGION_BY_ID[pid]
         IN IF Contains(POLYS[pid], p) \/ NearBoundary(p, POLYS[pid], THRESH)
            THEN <<reg>> \o RegionsOf(p, candidates, k + 1)
            ELSE RegionsOf(p, candidates, k + 1)

\* a result list that is the one of the previous call
StaleRegionsList == IF pc = "queried" THEN regions ELSE <<>>

\* regions = []
NewRegionsList == <<>>

regions_for_point(lat, lon) ==
    NewRegionsList \o RegionsOf(<<lon, lat>>, Query(TREE, <<lon, lat>>), 1)

\* How far beyond the hull of the regions the query points go (tenths).
Margin == 5

QueryLats ==
    (SetMin({REGION_BOUNDARIES[i].ll[k][1] :
                i \in 1..Len(REGION_BOUNDARIES), k \in 1..4}) - Margin)
    .. (SetMax({REGION_BOUNDARIES[i].ll[k][1] :
                i \in 1..Len(REGION_BOUNDARIES), k \in 1..4}) + Margin)
QueryLons ==
    (SetMin({REGION_BOUNDARIES[i].ll[k][2] :
                i \in 1..Len(REGION_BOUNDARIES), k \in 1..4}) - Margin)
    .. (SetMax({REGION_BOUNDARIES[i].ll[k][2] :
                i \in 1..Len(REGION_BOUNDARIES), k \in 1..4}) + Margin)

\* module import: _POLYS, ... = _build_region_index(REGION_BOUNDARIES)
InitRegion ==
    /\ danger_levels = NoValue
    /\ hsv_value = NoValue
    /\ closest_level = NoValue
    /\ self_coordinates = NoValue
    /\ rose_data = NoValue
    /\ colors = NoValue
    /\ coordinates = NoValue
    /\ input = NoValue
    /\ img = NoValue
    /\ rose_status = NoValue
    /\ POLYS = BuildPolys(REGION_BOUNDARIES)
    /\ REGION_BY_ID = BuildRegionById(REGION_BOUNDARIES)
    /\ TREE = BuildTree(BuildPolys(REGION_BOUNDARIES))
    /\ THRESH = MinThreshold
    /\ pt = NoValue
    /\ regions = NoValue
    /\ LaterIdle
    /\ pc = "init"

\* one call regions_for_point(lat, lon)
RegionsForPoint(lat, lon) ==
    /\ pc = "init"
    /\ pt' = <<lat, lon>>
    /\ regions' = regions_for_point(lat, lon)
    /\ pc' = "queried"
    /\ UNCHANGED <<classifyVars, decoderVars, generatorVars, indexVars, laterVars>>

NextRegion == \E lat \in QueryLats, lon \in QueryLons : RegionsForPoint(lat, lon)

SpecRegion == InitRegion /\ [][NextRegion]_vars

\* the polygon of REGION_BOUNDARIES[i] as (x, y) = (lon, lat) vertices
ShippedPolygon(i) ==
    [k \in 1..Len(REGION_BOUNDARIES[i].ll) |->
        <<REGION_BOUNDARIES[i].ll[k][2], REGION_BOUNDARIES[i].ll[k][1]>>]

Returned == {regions[k] : k \in 1..Len(regions)}

\* the queried point as (x, y) = (lon, lat)
QueriedXY == <<pt[2], pt[1]>>

\* the exterior of poly is closer to p than limit
ExteriorCloser(p, poly, limit) ==
    \E i \in 1..Len(poly) :
        LET d == SegDist2(p, EdgeFrom(poly, i), EdgeTo(poly, i))
        IN d[1] < limit * limit * d[2]

\* C9 as claimed: regions_for_point returns exactly the regions whose polygon
\* contains the point or whose boundary is within the tolerance of it, a
\* point outside the polygon but within the tolerance included. (At exactly
\* the tolerance the rounding of the doubles decides; inclusion is demanded
\* only for the points strictly closer.)
C9_AllWithinTolerance ==
    pc = "queried" =>
        \A i \in 1..Len(REGION_BOUNDARIES) :
            /\ REGION_BOUNDARIES[i].region \in Returned
                  => \/ ContainsOrTouches(ShippedPolygon(i), QueriedXY)
                     \/ ExteriorWithin(QueriedXY, ShippedPolygon(i), MinThreshold)
            /\ (\/ ContainsOrTouches(ShippedPolygon(i), QueriedXY)
                \/ ExteriorCloser(QueriedXY, ShippedPolygon(i), MinThreshold))
                  => REGION_BOUNDARIES[i].region \in Returned

\* C10: a point on an edge or a vertex of a region's polygon is reported in
\* that region.
C10_BoundaryIncluded ==
    pc = "queried" =>
        \A i \in 1..Len(REGION_BOUNDARIES) :
            ExteriorWithin(QueriedXY, ShippedPolygon(i), 0)
                => REGION_BOUNDARIES[i].region \in Returned

\* the corner shared by Ogden, Salt Lake and Uintas, and a point inside the
\* edge shared by Logan and Ogden
C10_Witness ==
    /\ pc = "queried"
    /\ \/ pt = <<408, -1111>> /\ Returned = {"Ogden", "Salt Lake", "Uintas"}
       \/ pt = <<412, -1115>> /\ Returned = {"Logan", "Ogden"}

(***************************************************************************)
(* ElevationBander: assign_regions (main_notebook.py)                      *)
(***************************************************************************)

\* REGION_ELEVATIONS: region -> its bands (lo, hi), lowest first; Moab,
\* Abajos and Southwest have no entry
REGION_ELEVATIONS ==
    [r \in {"Logan", "Ogden", "Uintas", "Salt Lake", "Provo", "Skyline"} |->
        CASE r \in {"Logan", "Ogden"} ->
                << <<0, 7000>>, <<7001, 8500>>, <<8501, 20000>> >>
          [] r = "Uintas" ->
                << <<0, 9500>>, <<9501, 10000>>, <<10001, 20000>> >>
          [] OTHER ->
                << <<0, 8000>>, <<8001, 9500>>, <<9501, 20000>> >>]

RegionNames == {REGION_BOUNDARIES[i].region : i \in 1..Len(REGION_BOUNDARIES)}

\* d[k] = v on a dict
Put(d, k, v) == [x \in (DOMAIN d) \cup {k} |-> IF x = k THEN v ELSE d[x]]

\* a banding that takes an elevation equal to an upper bound into the next
\* band
ElevationLevelStrict(band, elevation) ==
    IF elevation < band[1][2] THEN 1
    ELSE IF elevation < band[2][2] THEN 2 ELSE 3

\* lvl = 1 if row.elevation <= band[0][1] else 2 if row.elevation <= band[1][1] else 3
ElevationLevel(band, elevation) ==
    IF elevation <= band[1][2] THEN 1
    ELSE IF elevation <= band[2][2] THEN 2 ELSE 3

\* the body of "for reg in regs": one entry of region_stations per region
RECURSIVE AssignRow(_, _, _, _)
AssignRow(rs, row, regs, k) ==
    IF k > Len(regs) THEN rs
    ELSE LET reg == regs[k]
             lvl == IF reg \in DOMAIN REGION_ELEVATIONS
                       /\ Len(REGION_ELEVATIONS[reg]) > 0
                    THEN ElevationLevel(REGION_ELEVATIONS[reg], row.elevation)
                    ELSE 0
             info == [latitude |-> row.latitude, longitude |-> row.longitude,
                      elevation |-> row.elevation, elevation_level |-> lvl]
         IN AssignRow([rs EXCEPT ![reg] = Put(rs[reg], row.stationId, info)],
                      row, regs, k + 1)

\* the loop "for row in df.itertuples()": a row without region is skipped
RECURSIVE AssignFrom(_, _, _, _)
AssignFrom(rows, k, rs, s2r) ==
    IF k > Len(rows) THEN [region_stations |-> rs, station_to_regions |-> s2r]
    ELSE LET row == rows[k]
             regs == regions_for_point(row.latitude, row.longitude)
         IN IF Len(regs) = 0 THEN AssignFrom(rows, k + 1, rs, s2r)
            ELSE AssignFrom(rows, k + 1, AssignRow(rs, row, regs, 1),
                            Put(s2r, row.stationId, regs))

\* assign_regions(df)
assign_regions(rows) ==
    AssignFrom(rows, 1, [r \in RegionNames |-> <<>>], <<>>)

\* Largest number of rows of the station tables.
MaxStations == 2

StationIds == {"A", "B"}

\* The stations that are enumerated, <<latitude, longitude, elevation>>:
\* inside Logan, on the edge shared by Logan and Ogden, inside Salt Lake,
\* inside the Uintas, inside Moab (no bands) and outside every region, with
\* elevations at and next to the bounds of the bands
StationSamples ==
    {<<416, -1115, e>> : e \in {7000, 7001, 7500, 8500, 8501, 20000, 20001}}
    \cup {<<412, -1115, e>> : e \in {7000, 8501}}
    \cup {<<406, -1115, e>> : e \in {8000, 8001, 9500, 9501}}
    \cup {<<406, -1100, e>> : e \in {9500, 9501, 10000, 10001}}
    \cup {<<385, -1093, 7500>>, <<365, -1110, 7500>>}

StationRows ==
    {[stationId |-> id, latitude |-> s[1], longitude |-> s[2], elevation |-> s[3]] :
        id \in StationIds, s \in StationSamples}

StationTables == UNION {[1..n -> StationRows] : n \in 0..MaxStations}

\* the module is imported: the index is built over REGION_BOUNDARIES
InitAssign ==
    /\ RoseIdle
    /\ POLYS = BuildPolys(REGION_BOUNDARIES)
    /\ REGION_BY_ID = BuildRegionById(REGION_BOUNDARIES)
    /\ TREE = BuildTree(BuildPolys(REGION_BOUNDARIES))
    /\ THRESH = MinThreshold
    /\ pt = NoValue
    /\ regions = NoValue
    /\ AssignIdle
    /\ BuildIdle
    /\ FetchIdle
    /\ ScraperIdle
    /\ OtherIdle
    /\ pc = "init"

\* one call assign_regions(df)
AssignRegions(rows) ==
    /\ pc = "init"
    /\ df' = rows
    /\ region_stations' = assign_regions(rows).region_stations
    /\ station_to_regions' = assign_regions(rows).station_to_regions
    /\ pc' = "assigned"
    /\ UNCHANGED <<classifyVars, decoderVars, generatorVars, regionVars, buildVars,
                   fetchVars, scraperVars, otherVars>>

NextAssign == \E rows \in StationTables : AssignRegions(rows)

SpecAssign == InitAssign /\ [][NextAssign]_vars

\* the tier of the first band whose upper bound is at least the elevation:
\* 3 above every upper bound, 0 for a region without bands
FirstBandTier(reg, elevation) ==
    IF reg \notin DOMAIN REGION_ELEVATIONS THEN 0
    ELSE LET fits == {i \in 1..Len(REGION_ELEVATIONS[reg]) :
                         REGION_ELEVATIONS[reg][i][2] >= elevation}
         IN IF fits = {} THEN 3 ELSE SetMin(fits)

\* C11: every station entered under a region carries the tier of the first
\* band of that region whose upper bound is at least the station's elevation
\* (an elevation equal to an upper bound stays in that band, one above every
\* upper bound is tier 3), and tier 0 when the region has no bands.
C11_TierOfFirstBand ==
    pc = "assigned" =>
        \A reg \in RegionNames :
            \A sid \in DOMAIN region_stations[reg] :
                region_stations[reg][sid].elevation_level
                    = FirstBandTier(reg, region_stations[reg][sid].elevation)

\* a station at the upper bound of Logan's second band, and one in Moab
C11_Witness ==
    /\ pc = "assigned"
    /\ \E sid \in DOMAIN region_stations["Logan"] :
          /\ region_stations["Logan"][sid].elevation = 8500
          /\ region_stations["Logan"][sid].elevation_level = 2
    /\ \E sid \in DOMAIN region_stations["Moab"] :
          region_stations["Moab"][sid].elevation_level = 0

\* the row of df is the station at latitude 41.6, longitude -111.5 and
\* elevation 7500, and no other row has its stationId
IsC12Station(k) ==
    /\ df[k].latitude = 416
    /\ df[k].longitude = -1115
    /\ df[k].elevation = 7500
    /\ \A j \in 1..Len(df) : j # k => df[j].stationId # df[k].stationId

\* C12: with the shipped boundaries and bands, the station at latitude 41.6,
\* longitude -111.5 and elevation 7500 is assigned to Logan with tier 2 and
\* to no other region.
C12_LoganTierTwo ==
    pc = "assigned" =>
        \A k \in 1..Len(df) :
            IsC12Station(k) =>
                LET sid == df[k].stationId
                IN /\ sid \in DOMAIN station_to_regions
                   /\ station_to_regions[sid] = <<"Logan">>
                   /\ \A reg \in RegionNames :
                         sid \in DOMAIN region_stations[reg] <=> reg = "Logan"
                   /\ sid \in DOMAIN region_stations["Logan"]
                   /\ region_stations["Logan"][sid].elevation_level = 2

C12_Witness ==
    /\ pc = "assigned"
    /\ \E k \in 1..Len(df) :
          /\ IsC12Station(k)
          /\ station_to_regions[df[k].stationId] = <<"Logan">>

(***************************************************************************)
(* RegionIndex built over boundaries of the caller, and queried repeatedly *)
(***************************************************************************)

\* The boundary tables the index is built over: two shipped regions; Logan
\* with a self-intersecting ring (Ogden's vertices in crossing order); Logan
\* with a ring of two vertices; Logan with three collinear vertices.
BoundaryTables ==
    { << [region |-> "Logan",
          ll |-> << <<412, -1119>>, <<420, -1119>>, <<420, -1111>>, <<412, -1111>> >>],
         [region |-> "Ogden",
          ll |-> << <<408, -1120>>, <<412, -1120>>, <<412, -1111>>, <<408, -1111>> >>] >>,
      << [region |-> "Logan",
          ll |-> << <<412, -1119>>, <<420, -1119>>, <<420, -1111>>, <<412, -1111>> >>],
         [region |-> "Bowtie",
          ll |-> << <<408, -1120>>, <<412, -1111>>, <<412, -1120>>, <<408, -1111>> >>] >>,
      << [region |-> "Logan",
          ll |-> << <<412, -1119>>, <<420, -1119>>, <<420, -1111>>, <<412, -1111>> >>],
         [region |-> "Segment",
          ll |-> << <<408, -1120>>, <<412, -1111>> >>] >>,
      << [region |-> "Logan",
          ll |-> << <<412, -1119>>, <<420, -1119>>, <<420, -1111>>, <<412, -1111>> >>],
         [region |-> "Flat",
          ll |-> << <<408, -1120>>, <<408, -1115>>, <<408, -1111>> >>] >> }

\* Polygon(coords) raises ValueError for a shell of one or two coordinates
\* ("A LinearRing must have at least 3 coordinate tuples"); every other
\* shell is accepted as it is
PolygonRaises(ll) == Len(ll) \in {1, 2}

\* _build_region_index(boundaries): the regions in order; the first shell
\* Polygon() refuses ends the call with its ValueError, whose message names
\* no region
FirstRaising(bnd) ==
    LET bad == {i \in 1..Len(bnd) : PolygonRaises(bnd[i].ll)}
    IN IF bad = {} THEN 0 ELSE SetMin(bad)

\* Largest number of regions_for_point calls on one index.
MaxCalls == 3

\* the points that are queried on these indexes: inside Logan, on the edge
\* Logan shares with the second region, inside the second region, at the
\* crossing of the self-intersecting ring, and outside
CallPoints ==
    {<<416, -1115>>, <<412, -1115>>, <<410, -1118>>, <<410, -1113>>,
     <<410, -1115>>, <<400, -1115>>}

InitIndex ==
    /\ RoseIdle
    /\ RegionIdle
    /\ AssignIdle
    /\ given_boundaries = NoValue
    /\ build_status = NoValue
    /\ calls = <<>>
    /\ FetchIdle
    /\ ScraperIdle
    /\ OtherIdle
    /\ pc = "init"

\* _POLYS, ... = _build_region_index(boundaries)
BuildRegionIndex(bnd) ==
    /\ pc = "init"
    /\ given_boundaries' = bnd
    /\ IF FirstRaising(bnd) # 0
       THEN /\ build_status' = [status |-> "ValueError", region |-> None]
            /\ pc' = "failed"
            /\ UNCHANGED indexVars
       ELSE /\ build_status' = [status |-> "ok", region |-> None]
            /\ POLYS' = BuildPolys(bnd)
            /\ REGION_BY_ID' = BuildRegionById(bnd)
            /\ TREE' = BuildTree(BuildPolys(bnd))
            /\ THRESH' = MinThreshold
            /\ pc' = "built"
    /\ UNCHANGED <<classifyVars, decoderVars, generatorVars, pt, regions,
                   assignVars, calls, fetchVars, scraperVars, otherVars>>

\* one more call regions_for_point(lat, lon) on the index that was built
RegionsForPointAgain(lat, lon) ==
    /\ pc \in {"built", "queried"}
    /\ Len(calls) < MaxCalls
    /\ pt' = <<lat, lon>>
    /\ regions' = regions_for_point(lat, lon)
    /\ calls' = Append(calls, [pt |-> <<lat, lon>>,
                               regions |-> regions_for_point(lat, lon)])
    /\ pc' = "queried"
    /\ UNCHANGED <<classifyVars, decoderVars, generatorVars, indexVars,
                   assignVars, given_boundaries, build_status, fetchVars, scraperVars, otherVars>>

NextIndex ==
    \/ \E bnd \in BoundaryTables : BuildRegionIndex(bnd)
    \/ \E p \in CallPoints : RegionsForPointAgain(p[1], p[2])

SpecIndex == InitIndex /\ [][NextIndex]_vars

Orient(a, b, c) ==
    ((b[1] - a[1]) * (c[2] - a[2])) - ((b[2] - a[2]) * (c[1] - a[1]))

\* the segments a-b and c-d cross in a point inside both
SegmentsCross(a, b, c, d) ==
    /\ Orient(a, b, c) * Orient(a, b, d) < 0
    /\ Orient(c, d, a) * Orient(c, d, b) < 0

\* a ring that is no polygon: fewer than three vertices, all vertices on one
\* line, or two of its edges crossing
Malformed(ll) ==
    \/ Len(ll) < 3
    \/ \A i, j, k \in 1..Len(ll) : Orient(ll[i], ll[j], ll[k]) = 0
    \/ \E i, j \in 1..Len(ll) :
          SegmentsCross(EdgeFrom(ll, i), EdgeTo(ll, i),
                        EdgeFrom(ll, j), EdgeTo(ll, j))

\* C17 as claimed: building the index over a degenerate or self-intersecting
\* polygon ends with an error that names the region; the polygon is never
\* accepted.
C17_MalformedPolygonRefused ==
    pc \in {"built", "failed"} =>
        \A i \in 1..Len(given_boundaries) :
            Malformed(given_boundaries[i].ll)
                => /\ build_status.status # "ok"
                   /\ \E j \in 1..Len(given_boundaries) :
                         /\ Malformed(given_boundaries[j].ll)
                         /\ build_status.region = given_boundaries[j].region

(***************************************************************************)
(* SnotelFetcher: build_dataset and fetch_snotel_timeseries                *)
(* (main_notebook.py).  The main thread submits one task per station to a  *)
(* ThreadPoolExecutor and collects the futures as they complete.           *)
(***************************************************************************)

\* Largest number of rows of the station metadata.
MaxFetched == 3
\* max_workers: the threads of the pool (12 in the source).
max_workers == 2

\* The station metadata fetch_snotel_metadata returns, of which the first
\* rows are taken: inside Logan, on the edge of Logan and Ogden, inside Moab,
\* outside every region.
MetadataStations ==
    << [stationId |-> "A", latitude |-> 416, longitude |-> -1115, elevation |-> 7500],
       [stationId |-> "B", latitude |-> 412, longitude |-> -1115, elevation |-> 7000],
       [stationId |-> "C", latitude |-> 385, longitude |-> -1093, elevation |-> 7500],
       [stationId |-> "D", latitude |-> 365, longitude |-> -1110, elevation |-> 7500] >>

\* the SNOTEL_ELEMENTS that are enumerated
Elements == <<"Snow_Depth", "SWE">>

\* the answers of the data service for one station: per element, the dates
\* of its values
Responses ==
    { << [element |-> "Snow_Depth", dates |-> <<1, 2>>] >>,
      << [element |-> "Snow_Depth", dates |-> <<1, 2>>],
         [element |-> "SWE", dates |-> <<1, 2>>] >> }

\* the exceptions a task ends with: raise_for_status, and the lookup of an
\* unknown element code
TaskExceptions == {"HTTPError", "KeyError"}

\* for v in elem.get("values", []): one record per value
RECURSIVE ValueRecords(_, _, _, _)
ValueRecords(st_id, element, dates, k) ==
    IF k > Len(dates) THEN <<>>
    ELSE <<[Date |-> dates[k], stationId |-> st_id, element |-> element]>>
         \o ValueRecords(st_id, element, dates, k + 1)

\* _process_station(st_id): for elem in site["data"]: for v in values
RECURSIVE process_station(_, _, _)
process_station(st_id, response, k) ==
    IF k > Len(response) THEN <<>>
    ELSE ValueRecords(st_id, response[k].element, response[k].dates, 1)
         \o process_station(st_id, response, k + 1)

\* how a task can end: with an exception, or with the records of an answer
TaskOutcomes(st_id) ==
    {[exception |-> e, result |-> <<>>] : e \in TaskExceptions}
    \cup {[exception |-> None, result |-> process_station(st_id, r, 1)] :
            r \in Responses}

\* list(station_to_regions.keys()): the ids in the order of their first
\* insertion
RECURSIVE unique_ids(_, _, _)
unique_ids(rows, k, ids) ==
    IF k > Len(rows) THEN ids
    ELSE IF /\ Len(regions_for_point(rows[k].latitude, rows[k].longitude)) > 0
            /\ \A j \in 1..Len(ids) : ids[j] # rows[k].stationId
         THEN unique_ids(rows, k + 1, Append(ids, rows[k].stationId))
         ELSE unique_ids(rows, k + 1, ids)

Running == {i \in 1..Len(futures) : futures[i].state = "running"}
Pending == {i \in 1..Len(futures) : futures[i].state = "pending"}
Finished == {i \in 1..Len(futures) : futures[i].state = "finished"}
Yielded == {yielded[k] : k \in 1..Len(yielded)}

\* a handler that catches nothing
CaughtNever(exception) == FALSE

\* except Exception as e: every exception of a task is an Exception
Caught(exception) == exception \in {"HTTPError", "KeyError"}

\* a loop that ends as soon as one future was handled, and a pool that is
\* not waited for
FirstCompleted == Len(yielded) >= 1 \/ Len(futures) = 0

\* the for loop over as_completed(...) ends when every future was yielded,
\* and leaving the with block waits for the pool (shutdown(wait=True))
JoinBarrier ==
    /\ Yielded = 1..Len(futures)
    /\ Finished = 1..Len(futures)

\* the module is imported: the index is built over REGION_BOUNDARIES
InitFetch ==
    /\ RoseIdle
    /\ POLYS = BuildPolys(REGION_BOUNDARIES)
    /\ REGION_BY_ID = BuildRegionById(REGION_BOUNDARIES)
    /\ TREE = BuildTree(BuildPolys(REGION_BOUNDARIES))
    /\ THRESH = MinThreshold
    /\ pt = NoValue
    /\ regions = NoValue
    /\ AssignIdle
    /\ BuildIdle
    /\ FetchIdle
    /\ ScraperIdle
    /\ OtherIdle
    /\ pc = "init"

\* build_dataset up to the submission of the tasks: the metadata, the
\* assignment, and in fetch_snotel_timeseries one ex.submit per station id
BuildDataset(n) ==
    /\ pc = "init"
    /\ LET stations_df == SubSeq(MetadataStations, 1, n)
           ids == unique_ids(stations_df, 1, <<>>)
       IN /\ df' = stations_df
          /\ region_stations' = assign_regions(stations_df).region_stations
          /\ station_to_regions' = assign_regions(stations_df).station_to_regions
          /\ station_ids' = ids
          /\ futures' = [i \in 1..Len(ids) |->
                            [state |-> "pending", exception |-> None, result |-> <<>>]]
    /\ yielded' = <<>>
    /\ all_rows' = <<>>
    /\ pc' = "collecting"
    /\ UNCHANGED <<otherVars, scraperVars, classifyVars, decoderVars, generatorVars, regionVars, buildVars,
                   ts_df, dataset>>

\* a thread of the pool takes the oldest task of the work queue
WorkerStart(i) ==
    /\ pc \in {"collecting", "returned", "dataset", "raised"}
    /\ i \in Pending
    /\ \A j \in Pending : i <= j
    /\ Cardinality(Running) < max_workers
    /\ futures' = [futures EXCEPT ![i].state = "running"]
    /\ UNCHANGED <<otherVars, scraperVars, classifyVars, decoderVars, generatorVars, regionVars, assignVars,
                   buildVars, station_ids, yielded, all_rows, ts_df, dataset, pc>>

\* _process_station(sid) ends in its thread: the future is done
WorkerFinish(i) ==
    /\ pc \in {"collecting", "returned", "dataset", "raised"}
    /\ i \in Running
    /\ \E outcome \in TaskOutcomes(station_ids[i]) :
          futures' = [futures EXCEPT ![i] = [state |-> "finished",
                                             exception |-> outcome.exception,
                                             result |-> outcome.result]]
    /\ UNCHANGED <<otherVars, scraperVars, classifyVars, decoderVars, generatorVars, regionVars, assignVars,
                   buildVars, station_ids, yielded, all_rows, ts_df, dataset, pc>>

\* one turn of the loop: as_completed yields a done future;
\* try: all_rows.extend(fut.result()) except Exception: print
Collect(i) ==
    /\ pc = "collecting"
    /\ i \in Finished \ Yielded
    /\ yielded' = Append(yielded, i)
    /\ IF futures[i].exception = None
       THEN all_rows' = all_rows \o futures[i].result /\ pc' = pc
       ELSE IF Caught(futures[i].exception)
            THEN UNCHANGED <<all_rows, pc>>
            ELSE all_rows' = all_rows /\ pc' = "raised"
    /\ UNCHANGED <<otherVars, scraperVars, classifyVars, decoderVars, generatorVars, regionVars, assignVars,
                   buildVars, station_ids, futures, ts_df, dataset>>

\* return pd.DataFrame(all_rows)
Return ==
    /\ pc = "collecting"
    /\ JoinBarrier
    /\ ts_df' = all_rows
    /\ pc' = "returned"
    /\ UNCHANGED <<otherVars, scraperVars, classifyVars, decoderVars, generatorVars, regionVars, assignVars,
                   buildVars, station_ids, futures, yielded, all_rows, dataset>>

\* for reg in station_to_regions.get(r.stationId, ["Unknown"]): one row per
\* region of the station of r
RECURSIVE ExpandRow(_, _, _)
ExpandRow(r, regs, k) ==
    IF k > Len(regs) THEN <<>>
    ELSE <<[Region |-> regs[k], stationId |-> r.stationId,
            elevation_level |->
                region_stations[regs[k]][r.stationId].elevation_level,
            Date |-> r.Date, element |-> r.element]>>
         \o ExpandRow(r, regs, k + 1)

\* for r in ds.itertuples(index=False): the rows in the order of ts_df (the
\* left merge keeps it)
RECURSIVE ExpandRows(_, _)
ExpandRows(rows, k) ==
    IF k > Len(rows) THEN <<>>
    ELSE ExpandRow(rows[k], station_to_regions[rows[k].stationId], 1)
         \o ExpandRows(rows, k + 1)

\* the rest of build_dataset: the merge needs the column stationId (an empty
\* ts_df has none), and [cols] needs one column per element
BuildDatasetExpand ==
    /\ pc = "returned"
    /\ dataset' =
          IF \/ Len(ts_df) = 0
             \/ \E e \in 1..Len(Elements) :
                   \A k \in 1..Len(ts_df) : ts_df[k].element # Elements[e]
          THEN [status |-> "KeyError", rows |-> <<>>]
          ELSE [status |-> "ok", rows |-> ExpandRows(ts_df, 1)]
    /\ pc' = "dataset"
    /\ UNCHANGED <<otherVars, scraperVars, classifyVars, decoderVars, generatorVars, regionVars, assignVars,
                   buildVars, station_ids, futures, yielded, all_rows, ts_df>>

NextFetch ==
    \/ \E n \in 0..MaxFetched : BuildDataset(n)
    \/ \E i \in 1..MaxFetched : WorkerStart(i)
    \/ \E i \in 1..MaxFetched : WorkerFinish(i)
    \/ \E i \in 1..MaxFetched : Collect(i)
    \/ Return
    \/ BuildDatasetExpand

SpecFetch == InitFetch /\ [][NextFetch]_vars

\* the records of ts_df that carry the station id
RowsOf(st_id) ==
    LET OfStation(r) == r.stationId = st_id
    IN SelectSeq(ts_df, OfStation)

\* C14: a task that raises does not abort the batch: the call never ends by
\* raising, and what it returns holds the records of every task that
\* succeeded and no record of a station whose task raised.
C14_FailureIsolated ==
    /\ pc # "raised"
    /\ pc \in {"returned", "dataset"} =>
          \A i \in 1..Len(futures) :
              RowsOf(station_ids[i]) =
                  IF futures[i].exception = None THEN futures[i].result ELSE <<>>

\* the first future handled had raised, a later one brought records
C14_Witness ==
    /\ pc = "returned"
    /\ Len(yielded) >= 2
    /\ futures[yielded[1]].exception # None
    /\ \E k \in 2..Len(yielded) :
          /\ futures[yielded[k]].exception = None
          /\ RowsOf(station_ids[yielded[k]]) # <<>>

\* C15: once fetch_snotel_timeseries has returned, every submitted task is
\* finished: none is pending or running.
C15_JoinBarrier ==
    pc \in {"returned", "dataset"} =>
        \A i \in 1..Len(futures) : futures[i].state = "finished"

\* three tasks on two threads, handled in an order that is not the order of
\* submission
C15_Witness ==
    /\ pc = "returned"
    /\ Len(futures) = 3
    /\ yielded[1] = 2
    /\ yielded[3] = 1

StationRank(st_id) ==
    CHOOSE k \in 1..Len(MetadataStations) : MetadataStations[k].stationId = st_id

SortedByDateThenStation(rows) ==
    \A k \in 1..(Len(rows) - 1) :
        \/ rows[k].Date < rows[k + 1].Date
        \/ /\ rows[k].Date = rows[k + 1].Date
           /\ StationRank(rows[k].stationId) <= StationRank(rows[k + 1].stationId)

\* C16 as claimed: the rows build_dataset returns are sorted by date, then by
\* station.
C16_SortedByDate ==
    (pc = "dataset" /\ dataset.status = "ok")
        => SortedByDateThenStation(dataset.rows)

(***************************************************************************)
(* DatasetUpdater: AvalancheForecastScraper.run and scrape_forecast_data   *)
(* (update_avalanche_forecast_dataset.py).  Dates are day numbers.         *)
(***************************************************************************)

\* Largest number of run() calls.
MaxRuns == 2
\* Largest number of forecasts the archive lists.
MaxForecasts == 3
\* Rows of one page of the archive.
PageSize == 2
\* Latest day a forecast is issued.
MaxDate == 2
\* latest_date = None
NoDate == 0

ForecastAreas == {"Logan", "Ogden"}

\* a file that does not exist
NoFile ==
    [exists |-> FALSE, has_date_issued |-> FALSE, complete |-> FALSE, rows |-> <<>>]

\* a CSV with the column Date Issued, written completely
CsvFile(rows) ==
    [exists |-> TRUE, has_date_issued |-> TRUE, complete |-> TRUE, rows |-> rows]

\* a CSV whose date column has another name
CsvWithoutDateIssued ==
    [exists |-> TRUE, has_date_issued |-> FALSE, complete |-> TRUE,
     rows |-> << [Date |-> 1, Forecast_Area |-> "Logan", rose |-> "decoded"] >>]

\* what to_csv leaves when it raises while writing
PartialFile(rows) ==
    [exists |-> TRUE, has_date_issued |-> TRUE, complete |-> FALSE,
     rows |-> SubSeq(rows, 1, Len(rows) - 1)]

\* pd.to_datetime(existing_data['Date Issued']).max()
LatestDate(rows) == SetMax({rows[k].Date_Issued : k \in 1..Len(rows)})

\* scrape_forecast_data(latest_date): the rows of the archive in order, page
\* by page; a page that cannot be fetched and the page after the last row
\* end the loop; the row is appended before its date is compared
RECURSIVE ScrapeFrom(_, _, _, _, _)
ScrapeFrom(arch, latest_date, fail_page, k, data) ==
    IF k > Len(arch) THEN data
    ELSE IF (k - 1) % PageSize = 0 /\ (k - 1) \div PageSize = fail_page
         THEN data
         ELSE LET appended ==
                      Append(data, [Date_Issued |-> arch[k].date,
                                    Forecast_Area |-> arch[k].area])
              IN IF latest_date # NoDate /\ arch[k].date <= latest_date
                 THEN appended
                 ELSE ScrapeFrom(arch, latest_date, fail_page, k + 1, appended)

scrape_forecast_data(arch, latest_date, fail_page) ==
    ScrapeFrom(arch, latest_date, fail_page, 1, <<>>)

\* a loop that leaves out the row whose rose could not be read
RECURSIVE ProcessRowsSkipFailed(_, _, _)
ProcessRowsSkipFailed(rows, failed, k) ==
    IF k > Len(rows) THEN <<>>
    ELSE (IF k = failed THEN <<>>
          ELSE <<[Date_Issued |-> rows[k].Date_Issued,
                  Forecast_Area |-> rows[k].Forecast_Area, rose |-> "decoded"]>>)
         \o ProcessRowsSkipFailed(rows, failed, k + 1)

\* for i, row in enumerate(new_data_df.to_dict('records')): the rose cells
\* are added when the link and the image could be read; results.append(row)
\* in every case
RECURSIVE ProcessRows(_, _, _)
ProcessRows(rows, failed, k) ==
    IF k > Len(rows) THEN <<>>
    ELSE <<[Date_Issued |-> rows[k].Date_Issued,
            Forecast_Area |-> rows[k].Forecast_Area,
            rose |-> IF k = failed THEN None ELSE "decoded"]>>
         \o ProcessRows(rows, failed, k + 1)

\* the archive lists one forecast; the output file is absent, or has no
\* column Date Issued, or holds that forecast
InitScraper ==
    /\ RoseIdle
    /\ RegionIdle
    /\ AssignIdle
    /\ BuildIdle
    /\ FetchIdle
    /\ archive = << [date |-> 1, area |-> "Logan"] >>
    /\ output_csv \in
          {NoFile, CsvWithoutDateIssued,
           CsvFile(<< [Date_Issued |-> 1, Forecast_Area |-> "Logan",
                       rose |-> "decoded"] >>)}
    /\ temp_csv = NoFile
    /\ output_before = NoFile
    /\ new_data = <<>>
    /\ rose_failed = 0
    /\ results = <<>>
    /\ run_status = "none"
    /\ runs = 0
    /\ OtherIdle
    /\ pc = "init"

\* the avalanche center issues a forecast: the archive lists it first
Publish(date, area) ==
    /\ Len(archive) < MaxForecasts
    /\ date >= archive[1].date
    /\ \A k \in 1..Len(archive) : archive[k] # [date |-> date, area |-> area]
    /\ archive' = <<[date |-> date, area |-> area]>> \o archive
    /\ UNCHANGED <<otherVars, classifyVars, decoderVars, generatorVars, regionVars, assignVars,
                   buildVars, fetchVars, output_csv, temp_csv, output_before,
                   new_data, rose_failed, results, run_status, runs, pc>>

\* run(): fail_page is the archive page whose request raises (-1: none),
\* failed the scraped row without rose link or readable image (0: none),
\* write_fails whether to_csv raises
Run(fail_page, failed, write_fails) ==
    /\ runs < MaxRuns
    /\ LET readable == output_csv.exists /\ output_csv.has_date_issued
           existing_data == IF readable THEN output_csv.rows ELSE <<>>
           latest_date == IF readable THEN LatestDate(output_csv.rows) ELSE NoDate
           scraped == scrape_forecast_data(archive, latest_date, fail_page)
           processed == ProcessRows(scraped, failed, 1)
           combined == IF ~output_csv.exists THEN processed
                       ELSE existing_data \o processed
       IN /\ failed <= Len(scraped)
          /\ new_data' = scraped
          /\ IF Len(scraped) = 0
             THEN /\ run_status' = "no new forecasts"
                  /\ results' = <<>>
                  /\ UNCHANGED <<output_csv, temp_csv>>
             ELSE /\ results' = processed
                  /\ IF write_fails
                     THEN /\ temp_csv' = PartialFile(combined)
                          /\ run_status' = "error"
                          /\ UNCHANGED output_csv
                     ELSE /\ temp_csv' = NoFile
                          /\ output_csv' = CsvFile(combined)
                          /\ run_status' = "added"
    /\ output_before' = output_csv
    /\ rose_failed' = failed
    /\ runs' = runs + 1
    /\ pc' = "ran"
    /\ UNCHANGED <<otherVars, classifyVars, decoderVars, generatorVars, regionVars, assignVars,
                   buildVars, fetchVars, archive>>

NextScraper ==
    \/ \E date \in 1..MaxDate, area \in ForecastAreas : Publish(date, area)
    \/ \E fail_page \in -1..(MaxForecasts \div PageSize),
          failed \in 0..MaxForecasts, write_fails \in BOOLEAN :
          Run(fail_page, failed, write_fails)

SpecScraper == InitScraper /\ [][NextScraper]_vars

SameKey(a, b) ==
    a.Date_Issued = b.Date_Issued /\ a.Forecast_Area = b.Forecast_Area

C19_NoDuplicateKeys ==
    (output_csv.exists /\ output_csv.has_date_issued) =>
        \A i, j \in 1..Len(output_csv.rows) :
            i # j => ~SameKey(output_csv.rows[i], output_csv.rows[j])

\* C20 as claimed: an output file that existed before run() is afterwards
\* unchanged, or holds its previous rows, unchanged and in order, followed by
\* the rows of the run.
C20_ExistingRowsKept ==
    (pc = "ran" /\ output_before.exists) =>
        \/ output_csv = output_before
        \/ output_csv.rows = output_before.rows \o results

(***************************************************************************)
(* Concurrent callers of read_the_rose (one scraper object) and of         *)
(* regions_for_point (one region index).  A call runs one turn of its loop *)
(* per step; its locals belong to the thread that runs it.                 *)
(***************************************************************************)

\* Number of threads that call at the same time.
MaxThreads == 2

\* the decoder's coordinates.json lists the cells tier by tier
CellOrder ==
    << <<"bottom", "N">>, <<"bottom", "NE">>, <<"middle", "N">>,
       <<"middle", "NE">>, <<"top", "N">>, <<"top", "NE">> >>

\* self.coordinates.items(): the keys of the map in the file's order
CoordinateKeys ==
    LET InMap(c) == c \in DOMAIN self_coordinates
    IN SelectSeq(CellOrder, InMap)

\* the images that are decoded: the blank template, and a rose whose
\* bottom-N wedge has the fill colour of "high"
HighBottomN ==
    [p \in Pixels |->
        IF p \in {<<0, 0>>, <<1, 0>>} THEN hex_to_rgb(FillColors["high"])
        ELSE BlankRose[p]]

ThreadImages == {BlankRose, HighBottomN}

\* the points that are queried: inside Logan, and on the edge Logan shares
\* with Ogden
ThreadPoints == {<<416, -1115>>, <<412, -1115>>}

IdleThread ==
    [kind |-> "idle", arg |-> <<>>, k |-> 0, acc |-> <<>>, status |-> "idle"]

InitThreads ==
    /\ danger_levels = RoseDangerLevels
    /\ hsv_value = NoValue
    /\ closest_level = NoValue
    /\ self_coordinates = [c \in Cells |-> SamplePoint(c)]
    /\ rose_data = NoValue
    /\ colors = NoValue
    /\ coordinates = NoValue
    /\ input = NoValue
    /\ img = NoValue
    /\ rose_status = NoValue
    /\ POLYS = BuildPolys(REGION_BOUNDARIES)
    /\ REGION_BY_ID = BuildRegionById(REGION_BOUNDARIES)
    /\ TREE = BuildTree(BuildPolys(REGION_BOUNDARIES))
    /\ THRESH = MinThreshold
    /\ pt = NoValue
    /\ regions = NoValue
    /\ AssignIdle
    /\ BuildIdle
    /\ FetchIdle
    /\ ScraperIdle
    /\ MoreIdle
    /\ threads = [t \in 1..MaxThreads |-> IdleThread]
    /\ pc = "init"

\* a thread calls read_the_rose(image): danger_levels = {}
StartDecode(t, image) ==
    /\ threads[t].kind = "idle"
    /\ threads' = [threads EXCEPT ![t] =
                      [kind |-> "decode", arg |-> image, k |-> 1, acc |-> <<>>,
                       status |-> "running"]]
    /\ UNCHANGED <<classifyVars, decoderVars, generatorVars, regionVars, assignVars,
                   buildVars, fetchVars, scraperVars, moreVars, pc>>

\* a turn of the loop that rewrites the entry of self.coordinates it read,
\* as (row, column)
DecodeStepInPlace(t) ==
    /\ threads[t].kind = "decode"
    /\ threads[t].status = "running"
    /\ threads[t].k <= Len(CoordinateKeys)
    /\ LET point == CoordinateKeys[threads[t].k]
           coord == self_coordinates[point]
       IN /\ self_coordinates' =
                 [self_coordinates EXCEPT ![point] = <<coord[2], coord[1]>>]
          /\ threads' =
                 [threads EXCEPT ![t].k = @ + 1,
                     ![t].acc = Put(@, point,
                         IF InArray(ArrayIndex(coord))
                         THEN convert_to_danger_level(danger_levels,
                                  HsvArrayAt(threads[t].arg, ArrayIndex(coord)))
                         ELSE 0)]
    /\ UNCHANGED <<classifyVars, rose_data, generatorVars, regionVars, assignVars,
                   buildVars, fetchVars, scraperVars, moreVars, pc>>

\* one turn of "for point, coord in self.coordinates.items()": the sample is
\* classified and stored in the call's own dict; after the last entry the
\* call returns it
DecodeStep(t) ==
    /\ threads[t].kind = "decode"
    /\ threads[t].status = "running"
    /\ IF threads[t].k > Len(CoordinateKeys)
       THEN threads' = [threads EXCEPT ![t].status = "returned"]
       ELSE LET point == CoordinateKeys[threads[t].k]
                coord == self_coordinates[point]
            IN IF ~InArray(ArrayIndex(coord))
               THEN threads' = [threads EXCEPT ![t].status = "IndexError"]
               ELSE threads' =
                        [threads EXCEPT ![t].k = @ + 1,
                            ![t].acc = Put(@, point,
                                convert_to_danger_level(danger_levels,
                                    HsvArrayAt(threads[t].arg, ArrayIndex(coord))))]
    /\ UNCHANGED <<classifyVars, decoderVars, generatorVars, regionVars, assignVars,
                   buildVars, fetchVars, scraperVars, moreVars, pc>>

\* a thread calls regions_for_point(lat, lon): regions = []
StartQuery(t, lat, lon) ==
    /\ threads[t].kind = "idle"
    /\ threads' = [threads EXCEPT ![t] =
                      [kind |-> "query", arg |-> <<lat, lon>>, k |-> 1,
                       acc |-> <<>>, status |-> "running"]]
    /\ UNCHANGED <<classifyVars, decoderVars, generatorVars, regionVars, assignVars,
                   buildVars, fetchVars, scraperVars, moreVars, pc>>

\* one turn of "for poly in _TREE.query(pt)"; after the last candidate the
\* call returns its list
QueryStep(t) ==
    /\ threads[t].kind = "query"
    /\ threads[t].status = "running"
    /\ LET p == <<threads[t].arg[2], threads[t].arg[1]>>
           candidates == Query(TREE, p)
       IN IF threads[t].k > Len(candidates)
          THEN threads' = [threads EXCEPT ![t].status = "returned"]
          ELSE LET pid == candidates[threads[t].k]
               IN threads' =
                      [threads EXCEPT ![t].k = @ + 1,
                          ![t].acc =
                              IF \/ Contains(POLYS[pid], p)
                                 \/ NearBoundary(p, POLYS[pid], THRESH)
                              THEN Append(@, REGION_BY_ID[pid]) ELSE @]
    /\ UNCHANGED <<classifyVars, decoderVars, generatorVars, regionVars, assignVars,
                   buildVars, fetchVars, scraperVars, moreVars, pc>>

NextThreads ==
    \/ \E t \in 1..MaxThreads, image \in ThreadImages : StartDecode(t, image)
    \/ \E t \in 1..MaxThreads : DecodeStep(t)
    \/ \E t \in 1..MaxThreads, p \in ThreadPoints : StartQuery(t, p[1], p[2])
    \/ \E t \in 1..MaxThreads : QueryStep(t)

SpecThreads == InitThreads /\ [][NextThreads]_vars

\* C21: concurrent decodes and queries write no shared state: the coordinate
\* map, the colour table and the region index stay as they were loaded, and
\* a call that has returned, whatever ran between its steps, returned what
\* the call returns when it runs alone.
C21_NoSharedWrites ==
    /\ self_coordinates = [c \in Cells |-> SamplePoint(c)]
    /\ danger_levels = RoseDangerLevels
    /\ POLYS = BuildPolys(REGION_BOUNDARIES)
    /\ REGION_BY_ID = BuildRegionById(REGION_BOUNDARIES)
    /\ TREE = BuildTree(BuildPolys(REGION_BOUNDARIES))
    /\ THRESH = MinThreshold
    /\ \A t \in 1..MaxThreads :
          /\ threads[t].status # "IndexError"
          /\ threads[t].status = "returned" =>
                IF threads[t].kind = "decode"
                THEN threads[t].acc = read_the_rose(threads[t].arg).danger_levels
                ELSE threads[t].acc
                        = regions_for_point(threads[t].arg[1], threads[t].arg[2])

\* a decode has returned that read High at bottom-N while another decode, of
\* the blank image, was in the middle of its loop, or while a query of the
\* edge point had found its first region
C21_Witness ==
    \E t, u \in 1..MaxThreads :
        /\ threads[t].kind = "decode"
        /\ threads[t].status = "returned"
        /\ threads[t].arg = HighBottomN
        /\ threads[t].acc[<<"bottom", "N">>] = 4
        /\ threads[u].status = "running"
        /\ threads[u].k = 2
        /\ \/ threads[u].kind = "decode" /\ threads[u].arg = BlankRose
           \/ threads[u].kind = "query" /\ threads[u].acc = <<"Logan">>

(***************************************************************************)
(* create_rose: layers without coordinates or colour for a cell            *)
(***************************************************************************)

\* the level name a danger value of the input stands for
DangerName(d) == IF isnumeric(d) THEN num_to_danger(IntOf[d]) ELSE d

\* the layer has seeds for the cell and a colour for its danger
LayerApplies(level, direction, layer, danger) ==
    /\ <<level, layer>> \in DOMAIN coordinates
    /\ direction \in DOMAIN coordinates[<<level, layer>>]
    /\ layer \in DOMAIN colors
    /\ DangerName(danger) \in DOMAIN colors[layer]

\* the seeds of a layer filled one after the other
RECURSIVE FilledAt(_, _, _, _)
FilledAt(image, seeds, hex, i) ==
    IF i > Len(seeds) THEN image
    ELSE FilledAt(floodfill(image, seeds[i], hex_to_rgb(hex)), seeds, hex, i + 1)

\* the image after the layers that apply to cell n and the cells after it,
\* each of them filled, the other layers leaving the image as it is
RECURSIVE ImageFrom(_, _, _)
ImageFrom(image, n, k) ==
    IF n > Len(input) THEN image
    ELSE IF k > Len(Layers) THEN ImageFrom(image, n + 1, 1)
    ELSE IF LayerApplies(input[n].level, input[n].direction, Layers[k],
                         input[n].danger)
         THEN ImageFrom(
                  FilledAt(image,
                      coordinates[<<input[n].level, Layers[k]>>][input[n].direction],
                      colors[Layers[k]][DangerName(input[n].danger)], 1),
                  n, k + 1)
         ELSE ImageFrom(image, n, k + 1)

SomeLayerMisses ==
    \E n \in 1..Len(input), k \in 1..Len(Layers) :
        ~LayerApplies(input[n].level, input[n].direction, Layers[k], input[n].danger)

\* C22: create_rose given level names or numbers 0..5 raises no error when a
\* layer has no coordinate entry for a cell or no colour for its danger: the
\* image is the template with exactly the layers filled that have both, for
\* every cell of the input.
C22_MissingLayerSkipped ==
    (pc = "generated" /\ \A n \in 1..Len(input) : ValidDanger(input[n].danger))
        => /\ rose_status = "ok"
           /\ img = ImageFrom(BlankRose, 1, 1)

\* bottom-N given "4": the dark-shadow layer has a seed but no colour for
\* high, and its facet stays blank; then top-NE given "low", which has no
\* shadow seeds at all, is still filled
C22_Witness ==
    /\ pc = "generated"
    /\ rose_status = "ok"
    /\ coordinates = ShadowCoordinates
    /\ Len(input) = 2
    /\ input[1] = [level |-> "bottom", direction |-> "N", danger |-> "4"]
    /\ input[2] = [level |-> "top", direction |-> "NE", danger |-> "low"]
    /\ SomeLayerMisses
    /\ img[<<0, 0>>] = hex_to_rgb(FillColors["high"])
    /\ img[<<3, 0>>] = hex_to_rgb(LightShadowColors["high"])
    /\ img[<<8, 0>>] = White
    /\ img[<<5, 4>>] = hex_to_rgb(FillColors["low"])

(***************************************************************************)
(* scrape_forecast_data, request by request: the method of                 *)
(* AvalancheForecastScraper and the function of update_dataset.py          *)
(***************************************************************************)

ScrapeCopies == {"class", "script"}

\* the archive site lists the forecasts newest first
Listings ==
    {l \in UNION {[1..n -> [date : 1..MaxDate, area : ForecastAreas]] :
                     n \in 0..MaxForecasts} :
        \A i \in 1..Len(l), j \in 1..Len(l) : i < j => l[i].date >= l[j].date}

\* pd.DataFrame(data)
DataFrame(rows) == [kind |-> "DataFrame", rows |-> rows]

\* the position in the listing of row table_row of the page
ListedAt == page * PageSize + table_row

\* page = 0; data = []
InitScrape ==
    /\ NotLoopIdle
    /\ script \in ScrapeCopies
    /\ listing \in Listings
    /\ latest \in {NoDate} \cup 1..MaxDate
    /\ fails_at \in -1..((MaxForecasts \div PageSize) + 1)
    /\ page = 0
    /\ table_row = 0
    /\ scrape_data = <<>>
    /\ scrape_return = [kind |-> NoValue]
    /\ pc = "fetch"

\* requests.get(url), raise_for_status() or the parse raises: the method
\* catches the exception, breaks and returns the frame of data; the script has
\* no handler, and the exception leaves the function
FetchRaises ==
    /\ pc = "fetch"
    /\ page = fails_at
    /\ IF script = "class"
       THEN /\ scrape_return' = DataFrame(scrape_data)
            /\ pc' = "returned"
       ELSE /\ scrape_return' = [kind |-> "raised"]
            /\ pc' = "raised"
    /\ UNCHANGED <<notLoopVars, script, listing, latest, fails_at, page,
                   table_row, scrape_data>>

\* the page holds div.view-empty: break. The method returns the frame of
\* data after the loop; the script's function ends after the loop without a
\* return statement
FetchEmpty ==
    /\ pc = "fetch"
    /\ page # fails_at
    /\ page * PageSize >= Len(listing)
    /\ scrape_return' = IF script = "class" THEN DataFrame(scrape_data)
                        ELSE [kind |-> None]
    /\ pc' = "returned"
    /\ UNCHANGED <<notLoopVars, script, listing, latest, fails_at, page,
                   table_row, scrape_data>>

\* the page holds rows: for row in table_rows[1:]
FetchRows ==
    /\ pc = "fetch"
    /\ page # fails_at
    /\ page * PageSize < Len(listing)
    /\ table_row' = 1
    /\ pc' = "rows"
    /\ UNCHANGED <<notLoopVars, script, listing, latest, fails_at, page,
                   scrape_data, scrape_return>>

\* data.append({...}); then the comparison of the row's date with
\* latest_date (never true for None or NaT): return pd.DataFrame(data)
ReadRow ==
    /\ pc = "rows"
    /\ table_row <= PageSize
    /\ ListedAt <= Len(listing)
    /\ LET appended == Append(scrape_data,
                           [Date_Issued |-> listing[ListedAt].date,
                            Forecast_Area |-> listing[ListedAt].area])
       IN /\ scrape_data' = appended
          /\ IF latest # NoDate /\ listing[ListedAt].date <= latest
             THEN /\ scrape_return' = DataFrame(appended)
                  /\ pc' = "returned"
                  /\ UNCHANGED table_row
             ELSE /\ table_row' = table_row + 1
                  /\ UNCHANGED <<scrape_return, pc>>
    /\ UNCHANGED <<notLoopVars, script, listing, latest, fails_at, page>>

\* the rows of the page are read: page += 1
NextPage ==
    /\ pc = "rows"
    /\ (table_row > PageSize \/ ListedAt > Len(listing))
    /\ page' = page + 1
    /\ table_row' = 0
    /\ pc' = "fetch"
    /\ UNCHANGED <<notLoopVars, script, listing, latest, fails_at, scrape_data,
                   scrape_return>>

NextScrape ==
    \/ FetchRaises
    \/ FetchEmpty
    \/ FetchRows
    \/ ReadRow
    \/ NextPage

SpecScrape == InitScrape /\ [][NextScrape]_vars

\* the call goes on while it can: nothing else runs in the process
SpecScrapeFair == SpecScrape /\ WF_vars(NextScrape)

ScrapeEnded == pc \in {"returned", "raised"}

\* every call ends, with a return or with an exception
ScrapeTerminates == <>ScrapeEnded

\* the rows of the listing that come before the page whose request raises
RowsBeforeFailure ==
    IF fails_at >= 0 /\ fails_at * PageSize < Len(listing)
    THEN fails_at * PageSize
    ELSE Len(listing)

\* the rows up to and including the first one not later than latest_date
StoppingRows ==
    {k \in 1..RowsBeforeFailure : latest # NoDate /\ listing[k].date <= latest}

RowsCollected ==
    IF StoppingRows = {} THEN SubSeq(listing, 1, RowsBeforeFailure)
    ELSE SubSeq(listing, 1,
                CHOOSE k \in StoppingRows : \A j \in StoppingRows : k <= j)

AsRows(l) ==
    [k \in 1..Len(l) |-> [Date_Issued |-> l[k].date, Forecast_Area |-> l[k].area]]

\* C23: when scrape_forecast_data has stopped (empty page, failing page, or
\* the first row not later than latest_date) it has returned the rows it
\* collected: the listing in order up to the page that failed, the end of the
\* listing or the stopping row, and no row after it.
C23_ReturnsRowsCollected ==
    ScrapeEnded => scrape_return = DataFrame(AsRows(RowsCollected))

\* the method returns these rows in each of the three cases
C23_MethodReturnsRowsCollected ==
    (ScrapeEnded /\ script = "class")
        => /\ scrape_return = DataFrame(AsRows(RowsCollected))
           /\ scrape_return.rows = scrape_forecast_data(listing, latest, fails_at)

\* the script's function reaches the empty page after two rows newer than
\* latest_date and returns None
C23_ScriptReturnsNone ==
    /\ pc = "returned"
    /\ script = "script"
    /\ Len(scrape_data) = 2
    /\ scrape_return = [kind |-> None]

(***************************************************************************)
(* main.py: the two processor scripts run one after the other              *)
(***************************************************************************)

\* what main() finds at a data path: no file, a CSV with the date column it
\* looks for, a CSV without it, a file pd.read_csv cannot read
FileStates == {"absent", "dated", "undated", "unreadable"}

ExitCodes == {0, 1}

\* a processor is invoked at most twice in one call of process_..._data
Invocations == [1..2 -> ExitCodes]

\* run_processor: subprocess.run(command, check=True) raises
\* CalledProcessError when the script exits non-zero; otherwise
\* result.returncode == 0
run_processor(code) ==
    IF code # 0 THEN [raised |-> TRUE, value |-> FALSE]
    ELSE [raised |-> FALSE, value |-> code = 0]

Command(processor, dates, code) ==
    [processor |-> processor, dates |-> dates, code |-> code]

\* process_snotel_data / process_avalanche_forecast_data: the commands run
\* and what the function returns or raises.  Without a file run_processor is
\* called outside any try; with a file it is called inside the try, and the
\* handler calls it again without dates; a file that cannot be read goes to
\* the handler at once.
process_data(processor, file, codes) ==
    LET first == run_processor(codes[1])
        again == run_processor(codes[2])
    IN IF file = "absent"
       THEN [ran |-> <<Command(processor, FALSE, codes[1])>>, outcome |-> first]
       ELSE IF file = "unreadable"
       THEN [ran |-> <<Command(processor, FALSE, codes[1])>>, outcome |-> first]
       ELSE IF ~first.raised
       THEN [ran |-> <<Command(processor, file = "dated", codes[1])>>,
             outcome |-> first]
       ELSE [ran |-> <<Command(processor, file = "dated", codes[1]),
                       Command(processor, FALSE, codes[2])>>,
             outcome |-> again]

\* how a call ends
Returns(value) == [kind |-> "returned", value |-> value]
Raises(exception) == [kind |-> "raised", exception |-> exception]

InitMain ==
    /\ NotMainIdle
    /\ snotel_file \in FileStates
    /\ avalanche_file \in FileStates
    /\ snotel_exits \in Invocations
    /\ avalanche_exits \in Invocations
    /\ invoked = <<>>
    /\ snotel_success = NoValue
    /\ avalanche_success = NoValue
    /\ exit_status = NoValue
    /\ pc = "main"

\* snotel_success = process_snotel_data()
ProcessSnotelData ==
    /\ pc = "main"
    /\ LET r == process_data("snotel", snotel_file, snotel_exits)
       IN /\ invoked' = invoked \o r.ran
          /\ IF r.outcome.raised
             THEN /\ exit_status' = Raises("CalledProcessError")
                  /\ pc' = "raised"
                  /\ UNCHANGED snotel_success
             ELSE /\ snotel_success' = r.outcome.value
                  /\ pc' = "snotel"
                  /\ UNCHANGED exit_status
    /\ UNCHANGED <<notMainVars, snotel_file, avalanche_file, snotel_exits,
                   avalanche_exits, avalanche_success>>

\* avalanche_success = process_avalanche_forecast_data()
ProcessAvalancheForecastData ==
    /\ pc = "snotel"
    /\ LET r == process_data("avalanche", avalanche_file, avalanche_exits)
       IN /\ invoked' = invoked \o r.ran
          /\ IF r.outcome.raised
             THEN /\ exit_status' = Raises("CalledProcessError")
                  /\ pc' = "raised"
                  /\ UNCHANGED avalanche_success
             ELSE /\ avalanche_success' = r.outcome.value
                  /\ pc' = "avalanche"
                  /\ UNCHANGED exit_status
    /\ UNCHANGED <<notMainVars, snotel_file, avalanche_file, snotel_exits,
                   avalanche_exits, snotel_success>>

\* return 0 if snotel_success and avalanche_success else 1
MainReturn ==
    /\ pc = "avalanche"
    /\ exit_status' = Returns(IF snotel_success /\ avalanche_success THEN 0 ELSE 1)
    /\ pc' = "returned"
    /\ UNCHANGED <<notMainVars, snotel_file, avalanche_file, snotel_exits,
                   avalanche_exits, invoked, snotel_success, avalanche_success>>

NextMain ==
    \/ ProcessSnotelData
    \/ ProcessAvalancheForecastData
    \/ MainReturn

SpecMain == InitMain /\ [][NextMain]_vars

MainEnded == pc \in {"returned", "raised"}

Failed(processor) ==
    \E i \in 1..Len(invoked) :
        invoked[i].processor = processor /\ invoked[i].code # 0

Ran(processor) ==
    \E i \in 1..Len(invoked) : invoked[i].processor = processor

\* C24: when main() has ended, a processor script that exited non-zero has
\* made no exception: after a failing SNOTEL processor the forecast processor
\* was still run and main returned 1, and main returned 0 exactly when no
\* processor script failed.
C24_FailureReported ==
    MainEnded =>
        /\ exit_status.kind = "returned"
        /\ Failed("snotel") => (Ran("avalanche") /\ exit_status = Returns(1))
        /\ (exit_status = Returns(0)) <=> (~Failed("snotel") /\ ~Failed("avalanche"))

\* what main() does instead: it returns 0 or ends with CalledProcessError,
\* never 1
C24_NeverReturnsOne ==
    MainEnded =>
        /\ exit_status \in {Returns(0), Raises("CalledProcessError")}
        /\ exit_status.kind = "raised" => Failed("snotel") \/ Failed("avalanche")

\* no SNOTEL file, the SNOTEL processor exits 1: main() ends with the
\* exception before the forecast processor is run
C24_SnotelFailureRaises ==
    /\ pc = "raised"
    /\ snotel_file = "absent"
    /\ snotel_exits[1] = 1
    /\ ~Ran("avalanche")
    /\ exit_status = Raises("CalledProcessError")

(***************************************************************************)
(* assign_regions: the two maps it returns                                 *)
(***************************************************************************)

\* the regions station_to_regions lists for a station id
RegionsListedFor(s) ==
    IF s \in DOMAIN station_to_regions
    THEN {station_to_regions[s][k] : k \in 1..Len(station_to_regions[s])}
    ELSE {}

\* the rows of the table with that station id
RowsWithId(s) == {k \in 1..Len(df) : df[k].stationId = s}

MatchesNoRegion(s) ==
    \A k \in RowsWithId(s) :
        Len(regions_for_point(df[k].latitude, df[k].longitude)) = 0

MapsAgree ==
    /\ DOMAIN region_stations = RegionNames
    /\ \A s \in StationIds, r \in RegionNames :
          (s \in DOMAIN region_stations[r]) <=> (r \in RegionsListedFor(s))
    /\ \A s \in StationIds :
          MatchesNoRegion(s) =>
              /\ s \notin DOMAIN station_to_regions
              /\ \A r \in RegionNames : s \notin DOMAIN region_stations[r]

\* C27: for every table given to assign_regions, one listing a station id
\* twice included, a station is a key of region_stations[r] exactly when r is
\* in station_to_regions of that station; a station matching no region is in
\* neither map; every region of REGION_BOUNDARIES is a key of region_stations.
C27_MapsAgree == pc = "assigned" => MapsAgree

UniqueIds == \A i \in 1..Len(df), j \in 1..Len(df) : df[i].stationId = df[j].stationId => i = j

\* the maps agree for the tables that list every station id once
C27_MapsAgreeForUniqueIds == (pc = "assigned" /\ UniqueIds) => MapsAgree

\* station A listed inside Logan and then inside Moab: it stays in the roster
\* of Logan, and station_to_regions gives only Moab for it
C27_StaleRosterEntry ==
    /\ pc = "assigned"
    /\ Len(df) = 2
    /\ df[1].stationId = "A" /\ df[2].stationId = "A"
    /\ "A" \in DOMAIN region_stations["Logan"]
    /\ station_to_regions["A"] = <<"Moab">>

(***************************************************************************)
(* snotel_processor.py: determine_region and map_stations_to_regions       *)
(***************************************************************************)

\* region_boundaries.json: per region name a list of [lat, lon] vertices,
\* in tenths of a degree
LoganBoundary ==
    [region |-> "Logan",
     ll |-> << <<412, -1119>>, <<420, -1119>>, <<420, -1111>>, <<412, -1111>> >>]
OgdenBoundary ==
    [region |-> "Ogden",
     ll |-> << <<408, -1120>>, <<412, -1120>>, <<412, -1111>>, <<408, -1111>> >>]
\* a region that overlaps Logan and Ogden
NorthBoundary ==
    [region |-> "North",
     ll |-> << <<408, -1120>>, <<420, -1120>>, <<420, -1111>>, <<408, -1111>> >>]

\* the file is missing or cannot be parsed
NoBoundaryFile == [loadable |-> FALSE, regions |-> <<>>]

BoundaryFile(regs) == [loadable |-> TRUE, regions |-> regs]

BoundaryFiles ==
    {NoBoundaryFile,
     BoundaryFile(<<>>),
     BoundaryFile(<<LoganBoundary, OgdenBoundary>>),
     BoundaryFile(<<OgdenBoundary, LoganBoundary>>),
     BoundaryFile(<<LoganBoundary, NorthBoundary>>),
     BoundaryFile(<<NorthBoundary, LoganBoundary>>)}

\* load_region_boundaries(): data["regions"], or {} after any exception
load_region_boundaries(file) == IF file.loadable THEN file.regions ELSE <<>>

\* region_shapes = {region: Polygon(coords) ...}: the vertices as they stand,
\* x the latitude and y the longitude
RegionShapes(region_polygons) ==
    [i \in 1..Len(region_polygons) |->
        [region |-> region_polygons[i].region, polygon |-> region_polygons[i].ll]]

\* float('inf'), as a fraction
Infinity == <<1, 0>>

\* a < b on squared distances <<num, den>>
DistanceLess(a, b) == a[1] * b[2] < b[1] * a[2]

\* a comparison that lets a later region at the same distance win
CloserOrEqual(distance, min_distance) == ~DistanceLess(min_distance, distance)

\* if distance < min_distance
Closer(distance, min_distance) == DistanceLess(distance, min_distance)

\* polygon.exterior.distance(point), squared
ExteriorDistance(poly, p) ==
    LET ds == {SegDist2(p, EdgeFrom(poly, i), EdgeTo(poly, i)) : i \in 1..Len(poly)}
    IN CHOOSE d \in ds : \A e \in ds : ~DistanceLess(e, d)

\* the second loop of determine_region
RECURSIVE ClosestFrom(_, _, _, _, _)
ClosestFrom(p, shapes, k, min_distance, closest) ==
    IF k > Len(shapes) THEN closest
    ELSE LET distance == ExteriorDistance(shapes[k].polygon, p)
         IN IF Closer(distance, min_distance)
            THEN ClosestFrom(p, shapes, k + 1, distance, shapes[k].region)
            ELSE ClosestFrom(p, shapes, k + 1, min_distance, closest)

\* the first loop of determine_region, then the second
RECURSIVE ContainingFrom(_, _, _)
ContainingFrom(p, shapes, k) ==
    IF k > Len(shapes) THEN ClosestFrom(p, shapes, 1, Infinity, "Unknown")
    ELSE IF Contains(shapes[k].polygon, p) THEN shapes[k].region
    ELSE ContainingFrom(p, shapes, k + 1)

\* determine_region(lat, lon, region_shapes): point = Point(lat, lon)
determine_region(lat, lon, shapes) == ContainingFrom(<<lat, lon>>, shapes, 1)

\* The points that are enumerated, <<lat, lon>>: inside Logan (and North), on
\* the edge shared by Logan and Ogden, below Ogden, at the same distance from
\* Logan and Ogden outside both, and far from every region
RosterPoints ==
    {<<416, -1115>>, <<412, -1115>>, <<406, -1115>>, <<412, -1105>>, <<424, -1125>>}

RosterRows ==
    {[stationId |-> id, name |-> id, latitude |-> p[1], longitude |-> p[2]] :
        id \in StationIds, p \in RosterPoints}

RosterTables == UNION {[1..n -> RosterRows] : n \in 0..MaxStations}

\* snotel_data.csv: absent, or the rows save_to_csv wrote on day date, with
\* the region column once map_stations_to_regions has added it
NoStationCsv == [exists |-> FALSE, date |-> NoDate, rows |-> <<>>, region |-> <<>>]
StationCsv(date, rows, region) ==
    [exists |-> TRUE, date |-> date, rows |-> rows, region |-> region]

\* df[df['region'] == region][...].to_dict('records')
RECURSIVE RowsOfRegion(_, _, _, _)
RowsOfRegion(rows, column, region, k) ==
    IF k > Len(rows) THEN <<>>
    ELSE (IF column[k] = region THEN <<rows[k]>> ELSE <<>>)
         \o RowsOfRegion(rows, column, region, k + 1)

Keys(region_polygons) == [i \in 1..Len(region_polygons) |-> region_polygons[i].region]

\* the value of Op at v, with v computed once
Apply(Op(_), v) == CHOOSE r \in {Op(x) : x \in {v}} : TRUE

\* map_stations_to_regions(): False without the CSV or without regions;
\* otherwise the CSV with its region column, the roster written to the JSON
\* file, and (region_stations, region_polygons.keys())
map_stations_to_regions(csv, file) ==
    LET region_polygons == load_region_boundaries(file)
        shapes == RegionShapes(region_polygons)
        names == {region_polygons[i].region : i \in 1..Len(region_polygons)}
        Mapped(column) ==
            [mapped |-> TRUE,
             value |-> [region_stations |->
                            [r \in names |-> RowsOfRegion(csv.rows, column, r, 1)],
                        regions |-> Keys(region_polygons)],
             csv |-> StationCsv(csv.date, csv.rows, column),
             wrote |-> {"snotel_data.csv", "snotel_stations_by_region.json"}]
    IN IF ~csv.exists
       THEN [mapped |-> FALSE, value |-> FALSE, csv |-> csv, wrote |-> {}]
       ELSE IF Len(region_polygons) = 0
       THEN [mapped |-> FALSE, value |-> FALSE, csv |-> csv, wrote |-> {}]
       ELSE Apply(Mapped,
                  [k \in 1..Len(csv.rows) |->
                      determine_region(csv.rows[k].latitude, csv.rows[k].longitude,
                                       shapes)])

\* a station table and a boundary file, nothing mapped yet
InitRoster ==
    /\ NotSnotelIdle
    /\ today = 1
    /\ boundaries_json \in BoundaryFiles
    /\ snotel_csv \in {NoStationCsv} \cup {StationCsv(1, t, <<>>) : t \in RosterTables}
    /\ ts_csv = NoValue
    /\ stations_json = [exists |-> FALSE]
    /\ api_requests = <<>>
    /\ written = {}
    /\ snotel_result = [kind |-> NoValue]
    /\ start_date_obj = NoDate
    /\ updates = 0
    /\ called = NoValue
    /\ queried = <<>>
    /\ closest_region = NoValue
    /\ pc = "init"

\* one call determine_region(lat, lon, region_shapes) with the shapes of the
\* boundary file
DetermineRegion(lat, lon) ==
    /\ queried' = <<lat, lon>>
    /\ closest_region' =
          determine_region(lat, lon,
                           RegionShapes(load_region_boundaries(boundaries_json)))
    /\ pc' = "determined"
    /\ UNCHANGED <<notSnotelVars, today, boundaries_json, snotel_csv, ts_csv,
                   stations_json, api_requests, written, snotel_result,
                   start_date_obj, updates, called>>

\* one call map_stations_to_regions()
MapStationsToRegions ==
    /\ LET m == map_stations_to_regions(snotel_csv, boundaries_json)
       IN /\ snotel_csv' = m.csv
          /\ written' = m.wrote
          /\ snotel_result' = Returns(m.value)
          /\ stations_json' = IF ~m.mapped THEN stations_json
                              ELSE [exists |-> TRUE, roster |-> m.value.region_stations]
    /\ pc' = "mapped"
    /\ UNCHANGED <<notSnotelVars, today, boundaries_json, ts_csv, api_requests,
                   start_date_obj, updates, called, queried,
                   closest_region>>

NextRoster ==
    \/ \E p \in RosterPoints : DetermineRegion(p[1], p[2])
    \/ MapStationsToRegions

SpecRoster == InitRoster /\ [][NextRoster]_vars

\* the regions of the boundary file, as shapes
FileShapes == RegionShapes(load_region_boundaries(boundaries_json))

\* the positions of the regions that contain the queried point
Containing == {i \in 1..Len(FileShapes) : Contains(FileShapes[i].polygon, queried)}

\* the positions of the regions no other region's boundary is nearer than
Nearest ==
    {i \in 1..Len(FileShapes) :
        \A j \in 1..Len(FileShapes) :
            ~DistanceLess(ExteriorDistance(FileShapes[j].polygon, queried),
                          ExteriorDistance(FileShapes[i].polygon, queried))}

\* the rosters in which a row of the station table is listed
RostersWith(k) ==
    {r \in DOMAIN stations_json.roster :
        \E n \in 1..Len(stations_json.roster[r]) :
            stations_json.roster[r][n] = snotel_csv.rows[k]}

\* C29: determine_region returns the first region in file order that contains
\* the point, otherwise the first of the regions whose boundary is nearest,
\* and 'Unknown' only when there is no region; in the roster written by
\* map_stations_to_regions every station is listed under exactly one region,
\* the one in its region column.
C29_ExactlyOneRegion ==
    /\ pc = "determined" =>
          IF Len(FileShapes) = 0 THEN closest_region = "Unknown"
          ELSE IF Containing # {}
               THEN closest_region = FileShapes[SetMin(Containing)].region
               ELSE closest_region = FileShapes[SetMin(Nearest)].region
    /\ (pc = "mapped" /\ stations_json.exists) =>
          \A k \in 1..Len(snotel_csv.rows) :
              RostersWith(k) = {snotel_csv.region[k]}

\* a point on the edge shared by Logan and Ogden, with Ogden first in the
\* file, is given to Ogden: neither contains it and both are at distance 0
C29_Witness ==
    /\ pc = "determined"
    /\ boundaries_json = BoundaryFile(<<OgdenBoundary, LoganBoundary>>)
    /\ queried = <<412, -1115>>
    /\ Containing = {}
    /\ Nearest = {1, 2}
    /\ closest_region = "Ogden"

\* a station inside Logan and North and one nearer to Ogden are in the
\* roster, each under one region
C29_RosterWitness ==
    /\ pc = "mapped"
    /\ stations_json.exists
    /\ boundaries_json = BoundaryFile(<<NorthBoundary, LoganBoundary>>)
    /\ Len(snotel_csv.rows) = 2
    /\ snotel_csv.rows[1].stationId = "A"
    /\ snotel_csv.rows[2].stationId = "B"
    /\ snotel_csv.region = <<"North", "North">>
    /\ Len(stations_json.roster["North"]) = 2
    /\ Len(stations_json.roster["Logan"]) = 0

(***************************************************************************)
(* snotel_processor.py: the time series and the processor run as a script  *)
(***************************************************************************)

\* Last day of the clock.
MaxDay == 3
\* Largest number of processor calls in a run.
MaxUpdates == 2

\* timedelta(days=30)
DefaultDays == 30

\* the stations the metadata service lists: A inside Logan, B nearest to Ogden
ApiStations ==
    << [stationId |-> "A", name |-> "A", latitude |-> 416, longitude |-> -1115],
       [stationId |-> "B", name |-> "B", latitude |-> 406, longitude |-> -1115] >>

\* the place of a station name in the sort order of the names
NameRank(name) == IF name = "A" THEN 1 ELSE 2

\* snotel_ts_data.csv: absent (or of size 0); a CSV with the column Date; a
\* file pd.read_csv cannot read; a CSV without the column Date
NoTsFile == [state |-> "absent", rows |-> <<>>]
TsCsv(rows) == [state |-> "csv", rows |-> rows]
UnreadableTs == [state |-> "unreadable", rows |-> <<>>]
TsWithoutDate(rows) == [state |-> "no_date", rows |-> rows]

\* pd.to_datetime(df['Date']).max()
LatestTsDate(rows) == SetMax({rows[k].Date : k \in 1..Len(rows)})

\* end_date_obj: the given end date, or date.today()
EndDate(end_date, day) == IF end_date # NoDate THEN end_date ELSE day

\* start_date_obj: the given start date; else the day after the latest Date
\* of the file; else 30 days before the end date
StartDate(start_date, end_date_obj, ts) ==
    IF start_date # NoDate THEN start_date
    ELSE IF ts.state = "csv" /\ Len(ts.rows) > 0 THEN LatestTsDate(ts.rows) + 1
    ELSE end_date_obj - DefaultDays

\* a test that lets a start date equal to the end date through
StartAfterEnd(start, end) == start > end

\* if start_date_obj >= end_date_obj
NothingToFetch(start, end) == start >= end

\* fetch_snotel_station_data: the daily values the service holds for the
\* station, from its first day to the day of the request, within the range;
\* None when the request fails
StationValues(begin, end, day) == {d \in 1..day : begin <= d /\ d <= end}

\* the stations of the roster in the order of the loops: for region in
\* regions, for station in region_stations[region]
RECURSIVE RosterOrder(_, _, _)
RosterOrder(roster, regs, k) ==
    IF k > Len(regs) THEN <<>>
    ELSE [n \in 1..Len(roster[regs[k]]) |->
             [station |-> roster[regs[k]][n], region |-> regs[k]]]
         \o RosterOrder(roster, regs, k + 1)

\* snotel_data_list as a set: one record per date and station name, whatever
\* the number of elements
NewRecords(order, begin, end, day, down) ==
    {[Date |-> d, Station_Name |-> order[n].station.name, Region |-> order[n].region] :
        n \in {i \in 1..Len(order) : order[i].station.stationId \notin down},
        d \in StationValues(begin, end, day)}

RecordBefore(a, b) ==
    \/ a.Date < b.Date
    \/ a.Date = b.Date /\ NameRank(a.Station_Name) < NameRank(b.Station_Name)

\* df_new.sort_values(['Date', 'Station_Name']): a record stands after the
\* records that come before it
SortValues(records) ==
    [i \in 1..Cardinality(records) |->
        CHOOSE r \in records :
            Cardinality({o \in records : RecordBefore(o, r)}) = i - 1]

\* the file after df_new is written: appended without header to a file that
\* exists and whose header can be read, a new file otherwise
WriteRecords(ts, new) ==
    IF ts.state = "csv" THEN TsCsv(ts.rows \o new)
    ELSE IF ts.state = "no_date" THEN TsWithoutDate(ts.rows \o new)
    ELSE TsCsv(new)

\* the files of the processor
Files(csv, ts, json) == [csv |-> csv, ts |-> ts, json |-> json]

\* fetch_and_process_time_series_data(start_date, end_date): what it returns
\* or raises, the files after it, the requests made and the files written
fetch_and_process_time_series_data(start_date, end_date, files, file, day, down) ==
    LET end == EndDate(end_date, day)
        start == StartDate(start_date, end, files.ts)
        Fetched(m) ==
            LET mapped_files ==
                    Files(m.csv, files.ts,
                          [exists |-> TRUE, roster |-> m.value.region_stations])
                Collected(order) ==
                    LET asked == [n \in 1..Len(order) |->
                                     [station |-> order[n].station.stationId,
                                      begin |-> start, end |-> end]]
                        Stored(new) ==
                            IF Len(new) = 0
                            THEN [result |-> Returns(TRUE), files |-> mapped_files,
                                  start |-> start, asked |-> asked, wrote |-> m.wrote]
                            ELSE [result |-> Returns(TRUE),
                                  files |-> [mapped_files EXCEPT
                                                !.ts = WriteRecords(files.ts, new)],
                                  start |-> start, asked |-> asked,
                                  wrote |-> m.wrote \cup {"snotel_ts_data.csv"}]
                    IN Apply(Stored,
                             SortValues(NewRecords(order, start, end, day, down)))
            IN IF ~m.mapped
               THEN \* region_stations, regions = False
                    [result |-> Raises("TypeError"), files |-> files,
                     start |-> start, asked |-> <<>>, wrote |-> {}]
               ELSE Apply(Collected,
                          RosterOrder(m.value.region_stations, m.value.regions, 1))
    IN IF NothingToFetch(start, end)
       THEN [result |-> Returns(TRUE), files |-> files, start |-> start,
             asked |-> <<>>, wrote |-> {}]
       ELSE Apply(Fetched, map_stations_to_regions(files.csv, file))

\* process_snotel_data(start_date, end_date): the metadata is fetched and
\* saved, the stations are mapped, and the time series is fetched when a
\* date was given
process_snotel_data(start_date, end_date, files, file, day, meta_ok, down) ==
    LET saved == [files EXCEPT !.csv = StationCsv(day, ApiStations, <<>>)]
        Processed(m) ==
            LET mapped_files ==
                    Files(m.csv, files.ts,
                          [exists |-> TRUE, roster |-> m.value.region_stations])
                WithSeries(t) ==
                    [result |-> IF t.result.kind = "raised" THEN t.result
                                ELSE Returns(TRUE),
                     files |-> t.files, start |-> t.start, asked |-> t.asked,
                     wrote |-> m.wrote \cup t.wrote]
            IN IF ~m.mapped
               THEN \* region_stations, regions = False
                    [result |-> Raises("TypeError"), files |-> saved,
                     start |-> NoDate, asked |-> <<>>,
                     wrote |-> {"snotel_data.csv"}]
               ELSE IF start_date # NoDate \/ end_date # NoDate
               THEN Apply(WithSeries,
                          fetch_and_process_time_series_data(
                              start_date, end_date, mapped_files, file, day, down))
               ELSE [result |-> Returns(TRUE), files |-> mapped_files,
                     start |-> NoDate, asked |-> <<>>, wrote |-> m.wrote]
    IN IF ~meta_ok
       THEN [result |-> Returns(FALSE), files |-> files, start |-> NoDate,
             asked |-> <<>>, wrote |-> {}]
       ELSE Apply(Processed, map_stations_to_regions(saved.csv, file))

\* main.py's process_snotel_data(): the processor is run from the latest
\* date of snotel_data.csv to the current date, and once more without dates
\* when that run exits non-zero; without the file it is run without dates.
\* A run exits non-zero when the script ends with an exception.
main_process_snotel_data(files, file, day, meta_ok, down) ==
    LET Rebuilt(fs) == process_snotel_data(NoDate, NoDate, fs, file, day,
                                           meta_ok, down)
        Exit(run) == IF run.result.kind = "raised"
                     THEN [run EXCEPT !.result = Raises("CalledProcessError")]
                     ELSE [run EXCEPT !.result = Returns(TRUE)]
        AfterDated(dated) ==
            LET Both(again) == [again EXCEPT !.wrote = dated.wrote \cup again.wrote]
            IN IF dated.result.kind # "raised" THEN Exit(dated)
               ELSE Apply(Exit, Apply(Both, Rebuilt(dated.files)))
    IN IF ~files.csv.exists THEN Apply(Exit, Rebuilt(files))
       ELSE Apply(AfterDated,
                  process_snotel_data(files.csv.date, day, files, file, day,
                                      meta_ok, down))

DayArgs == {NoDate} \cup 1..MaxDay

\* the stations whose data request fails
DownSets == {{}, {"B"}}

CurrentFiles == Files(snotel_csv, ts_csv, stations_json)

\* the time-series file earlier runs have left by the given day: none, one
\* with a header only, one that cannot be read, one without the column Date,
\* or the records of every station up to some day
StoredSeries(day) ==
    {NoTsFile, TsCsv(<<>>), UnreadableTs, TsWithoutDate(<<>>)}
    \cup {TsCsv(SortValues({[Date |-> d, Station_Name |-> ApiStations[n].name,
                             Region |-> IF n = 1 THEN "Logan" ELSE "Ogden"] :
                               n \in 1..Len(ApiStations), d \in 1..last})) :
             last \in 1..day}

NoCall ==
    [start_date |-> NoDate, end_date |-> NoDate, day |-> 1,
     before |-> Files(NoStationCsv, NoTsFile, [exists |-> FALSE])]

\* the processor's directory on some day, before a call
InitTimeSeries ==
    /\ NotSnotelIdle
    /\ today \in 1..MaxDay
    /\ boundaries_json \in {NoBoundaryFile,
                            BoundaryFile(<<LoganBoundary, OgdenBoundary>>)}
    /\ snotel_csv \in {NoStationCsv} \cup
                      {StationCsv(d, ApiStations, <<>>) : d \in 1..today}
    /\ ts_csv \in StoredSeries(today)
    /\ stations_json = [exists |-> FALSE]
    /\ api_requests = <<>>
    /\ written = {}
    /\ snotel_result = [kind |-> NoValue]
    /\ start_date_obj = NoDate
    /\ updates = 0
    /\ called = NoCall
    /\ queried = <<>>
    /\ closest_region = NoValue
    /\ pc = "init"

\* the files, the requests and the result of a call
Finish(call, start_date, end_date, label) ==
    /\ \E run \in {call} :
          /\ snotel_csv' = run.files.csv
          /\ ts_csv' = run.files.ts
          /\ stations_json' = run.files.json
          /\ api_requests' = run.asked
          /\ written' = run.wrote
          /\ snotel_result' = run.result
          /\ start_date_obj' = run.start
    /\ updates' = updates + 1
    /\ called' = [start_date |-> start_date, end_date |-> end_date, day |-> today,
                  before |-> CurrentFiles]
    /\ pc' = label
    /\ UNCHANGED <<notSnotelVars, today, boundaries_json, queried, closest_region>>

\* python snotel_processor.py --timeseries_only [--start_date] [--end_date]
TimeSeriesOnly(start_date, end_date, down) ==
    /\ pc = "init"
    /\ Finish(fetch_and_process_time_series_data(start_date, end_date, CurrentFiles,
                                                 boundaries_json, today, down),
              start_date, end_date, "timeseries")

\* python snotel_processor.py [--start_date] [--end_date]
ProcessorScript(start_date, end_date, meta_ok, down) ==
    /\ pc = "init"
    /\ Finish(process_snotel_data(start_date, end_date, CurrentFiles,
                                  boundaries_json, today, meta_ok, down),
              start_date, end_date, "processed")

NextTimeSeries ==
    \/ \E start_date \in DayArgs, end_date \in DayArgs, down \in DownSets :
          TimeSeriesOnly(start_date, end_date, down)
    \/ \E start_date \in DayArgs, end_date \in DayArgs, meta_ok \in BOOLEAN,
          down \in DownSets :
          ProcessorScript(start_date, end_date, meta_ok, down)

SpecTimeSeries == InitTimeSeries /\ [][NextTimeSeries]_vars

ExpectedEnd == IF called.end_date # NoDate THEN called.end_date ELSE called.day

\* the start date the three rules give, in their order
ExpectedStart ==
    LET stored == called.before.ts
    IN IF called.start_date # NoDate THEN called.start_date
       ELSE IF stored.state = "csv" /\ stored.rows # <<>>
            THEN SetMax({stored.rows[k].Date : k \in 1..Len(stored.rows)}) + 1
            ELSE ExpectedEnd - 30

\* C25: fetch_and_process_time_series_data starts from the given start date,
\* else from the day after the latest Date of the time-series file, else
\* (no file, unreadable file, no Date column, no rows) from 30 days before the
\* end date; and when that start is not before the end date it returns True,
\* maps no stations, requests nothing and leaves every file as it was.
C25_StartDatePrecedence ==
    pc = "timeseries" =>
        /\ start_date_obj = ExpectedStart
        /\ start_date_obj >= ExpectedEnd =>
              /\ snotel_result = Returns(TRUE)
              /\ api_requests = <<>>
              /\ written = {}
              /\ CurrentFiles = called.before

\* the file holds days up to 2 and the call is made on day 2 without dates:
\* the start is day 3, not before the end, and nothing is done
C25_Witness ==
    /\ pc = "timeseries"
    /\ called.start_date = NoDate
    /\ called.end_date = NoDate
    /\ called.day = 2
    /\ called.before.ts.state = "csv"
    /\ Len(called.before.ts.rows) > 0
    /\ called.before.csv.exists
    /\ boundaries_json.loadable
    /\ start_date_obj = 3
    /\ snotel_result = Returns(TRUE)
    /\ written = {}
    /\ ts_csv = called.before.ts

\* the last call reached map_stations_to_regions and the mapping could not
\* be done: no station CSV, or no regions loaded from the boundary file
MappingFailed ==
    \/ /\ pc = "timeseries"
       /\ start_date_obj < ExpectedEnd
       /\ (~called.before.csv.exists
           \/ Len(load_region_boundaries(boundaries_json)) = 0)
    \/ /\ pc = "processed"
       /\ snotel_csv.exists /\ snotel_csv.date = called.day
       /\ "snotel_data.csv" \in written
       /\ Len(load_region_boundaries(boundaries_json)) = 0

\* C28: when the stations cannot be mapped to regions (station CSV missing,
\* boundary file missing or unloadable), process_snotel_data and
\* fetch_and_process_time_series_data return False and raise nothing.
C28_MappingFailureReturnsFalse ==
    MappingFailed => snotel_result = Returns(FALSE)

\* what the two functions do instead
C28_MappingFailureRaises ==
    MappingFailed => snotel_result = Raises("TypeError")

\* the boundary file is missing and process_snotel_data has saved the
\* metadata: the call ends with TypeError
C28_ProcessRaises ==
    /\ pc = "processed"
    /\ boundaries_json = NoBoundaryFile
    /\ snotel_csv.exists
    /\ snotel_result = Raises("TypeError")

\* the station CSV is missing and a time series is asked for
C28_TimeSeriesRaises ==
    /\ pc = "timeseries"
    /\ boundaries_json.loadable
    /\ ~called.before.csv.exists
    /\ snotel_result = Raises("TypeError")

(***************************************************************************)
(* snotel_processor.py run again and again as an incremental update        *)
(***************************************************************************)

\* the processor's directory on the first day
InitSnotel ==
    /\ NotSnotelIdle
    /\ today = 1
    /\ boundaries_json \in {NoBoundaryFile,
                            BoundaryFile(<<LoganBoundary, OgdenBoundary>>)}
    /\ snotel_csv \in {NoStationCsv, StationCsv(1, ApiStations, <<>>)}
    /\ ts_csv \in {NoTsFile, TsCsv(<<>>), UnreadableTs, TsWithoutDate(<<>>)}
    /\ stations_json = [exists |-> FALSE]
    /\ api_requests = <<>>
    /\ written = {}
    /\ snotel_result = [kind |-> NoValue]
    /\ start_date_obj = NoDate
    /\ updates = 0
    /\ called = NoCall
    /\ queried = <<>>
    /\ closest_region = NoValue
    /\ pc = "init"

\* a day passes
Tick ==
    /\ today < MaxDay
    /\ today' = today + 1
    /\ UNCHANGED <<notSnotelVars, boundaries_json, snotel_csv, ts_csv, stations_json,
                   api_requests, written, snotel_result, start_date_obj, updates,
                   called, queried, closest_region, pc>>

\* main.py: process_snotel_data(), the processor run from the latest stored
\* date to the current date
MainUpdate(meta_ok, down) ==
    /\ updates < MaxUpdates
    /\ Finish(main_process_snotel_data(CurrentFiles, boundaries_json, today,
                                       meta_ok, down),
              snotel_csv.date, today, "main")

\* python snotel_processor.py [--end_date], without a start date
ScriptUpdate(end_given, meta_ok, down) ==
    /\ updates < MaxUpdates
    /\ LET end_date == IF end_given THEN today ELSE NoDate
       IN Finish(process_snotel_data(NoDate, end_date, CurrentFiles,
                                     boundaries_json, today, meta_ok, down),
                 NoDate, end_date, "processed")

\* python snotel_processor.py --timeseries_only [--end_date], without a
\* start date
TimeSeriesUpdate(end_given, down) ==
    /\ updates < MaxUpdates
    /\ LET end_date == IF end_given THEN today ELSE NoDate
       IN Finish(fetch_and_process_time_series_data(NoDate, end_date, CurrentFiles,
                                                    boundaries_json, today, down),
                 NoDate, end_date, "timeseries")

NextSnotel ==
    \/ Tick
    \/ \E meta_ok \in BOOLEAN, down \in DownSets : MainUpdate(meta_ok, down)
    \/ \E end_given \in BOOLEAN, meta_ok \in BOOLEAN, down \in DownSets :
          ScriptUpdate(end_given, meta_ok, down)
    \/ \E end_given \in BOOLEAN, down \in DownSets :
          TimeSeriesUpdate(end_given, down)

SpecSnotel == InitSnotel /\ [][NextSnotel]_vars

TsKeysUnique ==
    \A i \in 1..Len(ts_csv.rows), j \in 1..Len(ts_csv.rows) :
        (/\ ts_csv.rows[i].Date = ts_csv.rows[j].Date
         /\ ts_csv.rows[i].Station_Name = ts_csv.rows[j].Station_Name) => i = j

\* C26: after any sequence of incremental updates (main.py's run from the
\* latest stored date to today, or the processor run without a start date)
\* the time-series CSV holds no two records with the same Date and
\* Station_Name.
C26_NoDuplicateRecords ==
    ts_csv.state = "csv" => TsKeysUnique

\* updates made by the processor without a start date alone add no record
\* twice to a file whose Date column they can read
C26_UniqueWithoutMain ==
    [][(ts_csv.state = "csv" /\ TsKeysUnique /\ pc' # "main")
          => (ts_csv'.state = "csv" => TsKeysUnique')]_vars

\* main.py run on day 2 over a file that holds day 1 stores day 1 again
C26_MainStoresDayTwice ==
    /\ pc = "main"
    /\ called.day = 2
    /\ called.start_date = 1
    /\ called.before.ts.state = "csv"
    /\ ts_csv.state = "csv"
    /\ \E i \in 1..Len(ts_csv.rows), j \in 1..Len(ts_csv.rows) :
          /\ i < j
          /\ ts_csv.rows[i].Date = 1 /\ ts_csv.rows[j].Date = 1
          /\ ts_csv.rows[i].Station_Name = "A" /\ ts_csv.rows[j].Station_Name = "A"
====
